---- MODULE Spec2Model ----
(***************************************************************************)
(* The WASM fallback of notso-glb: the WASI host-call layer (wasi.py), the *)
(* engine wrapper (runtime.py) and the runner (runner.py).                 *)
(*                                                                         *)
(* Python strings are sequences of one-character strings, bytes and        *)
(* bytearrays are sequences of integers, a dict is a function whose        *)
(* domain is its key set, None is the empty tuple and a present optional   *)
(* value v is <<v>>.  Guest linear memory is not part of this state: a     *)
(* host call receives the values its pointers designate (the path string,  *)
(* the iovec contents) and a flag telling whether its out-pointer lies     *)
(* inside memory; the record a host-call operator yields holds the status  *)
(* it returns and what it stores through its out-pointers.                 *)
(***************************************************************************)
EXTENDS Integers, Sequences, FiniteSets, TLC

VARIABLES
    _gltfpack,       \* runner._gltfpack: TRUE when the singleton exists
    _instance,       \* GltfpackWasm._instance is not None
    _fds,            \* WasiFilesystem._fds: fd -> dict
    _fs_interface,   \* WasiFilesystem._fs_interface: [none, files]
    _output_buffer,  \* WasiFilesystem._output_buffer
    disk,            \* files on disk: name -> bytes
    pc,              \* "idle", "ctors" (inside __wasm_call_ctors), "guest" (inside pack)
    call,            \* the locals of the running run_gltfpack_wasm / pack
    result,          \* how the last run_gltfpack_wasm ended
    ncalls,          \* host calls made by the running guest code
    runs,            \* calls of run_gltfpack_wasm so far
    made,            \* history: GltfpackWasm objects and wasm instances built so far
    returned_fds,    \* history: fds handed out by path_open since the last _init_fds
    guest,           \* the locals of the copying stub guest (SpecCopy only)
    memory,          \* the guest memory the accessors work on (SpecMem only)
    native,          \* the locals of utils.gltfpack.run_gltfpack (SpecNative only)
    heap,            \* pack's argv buffer and the guest's malloc/free (SpecArgv only)
    threads          \* the callers of pack on one engine (SpecRace only)

vars == <<_gltfpack, _instance, _fds, _fs_interface, _output_buffer, disk,
          pc, call, result, ncalls, runs, made, returned_fds, guest,
          memory, native, heap, threads>>

\* the variables of the units that are checked on their own
units == <<memory, native, heap, threads>>

---------------------------------------------------------------------------
\* Bounds of the model.
MaxByte == 2          \* guest data bytes are 1..MaxByte; 0 is the bytearray fill
MaxLen == 2           \* the guest writes no byte past this file offset
MaxIovs == 2          \* iovecs per fd_read / fd_write
MaxIovLen == 1        \* bytes per iovec
MaxOpen == 2          \* descriptors the guest holds open at once
MaxCalls == 3         \* host calls per guest run (host-call layer on its own)
RunCalls == 1         \* host calls per guest run (whole runs)
MaxRuns == 2          \* calls of run_gltfpack_wasm
MaxEngines == 2       \* GltfpackWasm objects built
MemSize == 6          \* bytes of guest memory (accessors on their own)
MaxQuality == 10      \* the largest texture quality
MaxLog == 2           \* bytes of log per guest run
MaxCopy == 3          \* longest input file given to the copying guest
CopyChunk == 2        \* bytes the copying guest asks of one fd_read
InitialCapacity == 2  \* bytearray(4096) of a create-opened file, scaled down
MaxArgs == 2          \* strings of an argv handed to _upload_argv
MaxArgLen == 1        \* characters of one argv string
ArgvMemSize == 16     \* bytes of guest memory under _upload_argv
MaxPacks == 2         \* pack calls that reach _upload_argv
MaxRound == 3         \* bytes the round-trip guest writes
MaxWrites == 3        \* fd_write calls of the round-trip guest

\* WASI error codes (constants.py).
WASI_EBADF == 8
WASI_EINVAL == 28
WASI_EIO == 29
WASI_ENOSYS == 52

---------------------------------------------------------------------------
\* Python values.
None == <<>>
Some(v) == <<v>>

Min(a, b) == IF a < b THEN a ELSE b
Max(a, b) == IF a > b THEN a ELSE b

\* dict.get(k, default), d[k] = v, del d[k]
Get(d, k, default) == IF k \in DOMAIN d THEN d[k] ELSE default
Put(d, k, v) == [x \in DOMAIN d \cup {k} |-> IF x = k THEN v ELSE d[x]]
Del(d, k) == [x \in DOMAIN d \ {k} |-> d[x]]
EmptyDict == [x \in {} |-> 0]

\* bytearray(n)
Zeros(n) == [i \in 1..n |-> 0]
\* s[a:b] for 0 <= a, 0 <= b (Python clamps both ends to len(s))
Slice(s, a, b) ==
    LET hi == Min(b, Len(s)) IN
    IF a >= hi THEN <<>> ELSE [i \in 1..(hi - a) |-> s[a + i]]
\* data[pos:pos+n] = w with 0 <= pos, pos + n <= len(data), len(w) = n
SliceAssign(data, pos, w) ==
    [i \in 1..Len(data) |->
        IF i > pos /\ i <= pos + Len(w) THEN w[i - pos] ELSE data[i]]
\* the grown buffer without the copy of the old bytes
Grow_Fresh(data, new_len) == [i \in 1..new_len |-> 0]
\* new_data = bytearray(new_len); new_data[:len(data)] = data
Grow(data, new_len) ==
    [i \in 1..new_len |-> IF i <= Len(data) THEN data[i] ELSE 0]

\* a byte that starts no valid UTF-8 sequence (0xFF)
InvalidByte == 256 - 1

\* the byte values a guest writes: ASCII ones and the invalid one
Byte == (1..(MaxByte - 1)) \cup {InvalidByte}
RECURSIVE SeqsUpTo(_, _)
SeqsUpTo(S, n) ==
    IF n = 0 THEN {<<>>}
    ELSE LET shorter == SeqsUpTo(S, n - 1) IN
         shorter \cup {Append(s, x) : s \in {t \in shorter : Len(t) = n - 1}, x \in S}

---------------------------------------------------------------------------
\* Strings of the program.
MountRoot == <<"/">>
MountPwd == <<"/", "g", "l", "t", "f", "p", "a", "c", "k", "-", "$", "p", "w", "d">>
EmptyStr == <<>>
Dot == <<".">>

\* the baseline merged into the table in place of replacing it
InitFds_Update ==
    ((1 :> [type |-> "output"]) @@
     (2 :> [type |-> "output"]) @@
     (3 :> [mount |-> <<"/">>, path |-> <<"/">>]) @@
     (4 :> [mount |-> <<"/", "g", "l", "t", "f", "p", "a", "c", "k", "-", "$", "p", "w", "d">>,
            path |-> <<>>])) @@ _fds
\* WasiFilesystem._init_fds: the table it installs
InitFds ==
    (1 :> [type |-> "output"]) @@
    (2 :> [type |-> "output"]) @@
    (3 :> [mount |-> MountRoot, path |-> MountRoot]) @@
    (4 :> [mount |-> MountPwd, path |-> EmptyStr])

\* WasiFilesystem.__init__: _fds = {}, _fs_interface = None
NoFds == [x \in {} |-> EmptyDict]
FsNone == [none |-> TRUE, files |-> EmptyDict]
FsOf(files) == [none |-> FALSE, files |-> files]

\* WasiFilesystem._next_fd: fd = 5; while fd in self._fds: fd += 1
RECURSIVE NextFdFrom(_, _)
NextFdFrom(fds, fd) == IF fd \in DOMAIN fds THEN NextFdFrom(fds, fd + 1) ELSE fd
\* allocation of the smallest unused id, the reserved ones included
_next_fd_Lowest(fds) == NextFdFrom(fds, 1)
\* allocation without the search for an unused id
_next_fd_First(fds) == 5
_next_fd(fds) == NextFdFrom(fds, 5)

\* What a host call does: the host state it leaves, the status it returns
\* (-1 when it raises instead), the value and the bytes it stores through
\* its out-pointers, and the Python exception that leaves it ("" for none).
HostRet(fds, fs, out, status, val, bytes, exc) ==
    [fds |-> fds, fs |-> fs, out |-> out, status |-> status,
     val |-> val, bytes |-> bytes, exc |-> exc]
Returns(status) == HostRet(_fds, _fs_interface, _output_buffer, status, 0, <<>>, "")
Raises(fds, exc) == HostRet(fds, _fs_interface, _output_buffer, -1, 0, <<>>, exc)
\* _set_u8 / _set_u32 / memory_array[i] = b: an index outside memory raises
\* IndexError, int.to_bytes of a negative value raises OverflowError first.
StoreExc(value, mem_ok) ==
    IF value < 0 THEN "OverflowError" ELSE IF mem_ok THEN "" ELSE "IndexError"

\* Memory accessors.  _memory_array is a ctypes array of c_ubyte over the
\* guest's linear memory; mem is its contents, mem[i + 1] the byte at offset i.
\* An index below zero counts from the end, as for every Python sequence.
PyIndex(n, i) == IF i < 0 THEN i + n ELSE i
IndexOk(n, i) == 0 <= PyIndex(n, i) /\ PyIndex(n, i) < n
\* s[a:b] for any integers a and b: both ends are counted from the end when
\* negative and then clamped to 0..len(s)
PySlice(s, a, b) ==
    LET n == Len(s)
        lo == IF a < 0 THEN Max(a + n, 0) ELSE Min(a, n)
        hi == IF b < 0 THEN Max(b + n, 0) ELSE Min(b, n)
    IN IF lo >= hi THEN <<>> ELSE [i \in 1..(hi - lo) |-> s[lo + i]]

\* what an accessor leaves: the memory, the value returned, the exception raised
MemRet(mem, val, exc) == [mem |-> mem, val |-> val, exc |-> exc]

\* A Python int that may need all 32 bits is kept as two halves: Word(hi, lo)
\* is the integer hi * 2^16 + lo, with 0 <= lo < 2^16.
Word(hi, lo) == [hi |-> hi, lo |-> lo]
\* the four bytes most significant first
ToBytesBE(value) ==
    <<value.hi \div 256, value.hi % 256, value.lo \div 256, value.lo % 256>>
\* value.to_bytes(4, "little") for 0 <= value < 2^32
ToBytesLE(value) ==
    <<value.lo % 256, value.lo \div 256, value.hi % 256, value.hi \div 256>>
\* int.from_bytes(b, "little") for at most four bytes
FromBytesLE(b) ==
    LET at(i) == IF i <= Len(b) THEN b[i] ELSE 0
    IN Word(at(3) + 256 * at(4), at(1) + 256 * at(2))

\* WasiFilesystem._get_string; the decoding is strict
_get_string(mem, offset, length) ==
    LET b == PySlice(mem, offset, offset + length) IN
    IF \E i \in 1..Len(b) : b[i] = InvalidByte
    THEN MemRet(mem, <<>>, "UnicodeDecodeError")
    ELSE MemRet(mem, b, "")

\* WasiFilesystem._set_u8
_set_u8(mem, offset, value) ==
    IF ~IndexOk(Len(mem), offset) THEN MemRet(mem, 0, "IndexError")
    ELSE MemRet([mem EXCEPT ![PyIndex(Len(mem), offset) + 1] = value % 256], 0, "")

\* the loop of _set_u32 from byte i on: one indexed store per byte
RECURSIVE StoreBytes(_, _, _, _)
StoreBytes(mem, offset, val_bytes, i) ==
    IF i > Len(val_bytes) THEN MemRet(mem, 0, "")
    ELSE IF ~IndexOk(Len(mem), offset + i - 1) THEN MemRet(mem, 0, "IndexError")
    ELSE StoreBytes([mem EXCEPT ![PyIndex(Len(mem), offset + i - 1) + 1] = val_bytes[i]],
                    offset, val_bytes, i + 1)

\* WasiFilesystem._set_u32
_set_u32(mem, offset, value) ==
    IF value.hi < 0 \/ value.hi >= 2 ^ 16 THEN MemRet(mem, 0, "OverflowError")
    ELSE StoreBytes(mem, offset, ToBytesLE(value), 1)

\* WasiFilesystem._get_u32
_get_u32(mem, offset) == MemRet(mem, FromBytesLE(PySlice(mem, offset, offset + 4)), "")

\* WasiFilesystem.wasi_proc_exit
wasi_proc_exit(rval) == Returns(0)

\* close that flushes the whole buffer, capacity included
wasi_fd_close_WholeBuffer(fd) ==
    IF fd \notin DOMAIN _fds THEN Returns(WASI_EBADF)
    ELSE LET fd_info == _fds[fd] IN
         IF "close_data" \in DOMAIN fd_info /\ ~_fs_interface.none
         THEN HostRet(Del(_fds, fd),
                      FsOf(Put(_fs_interface.files, Get(fd_info, "name", EmptyStr),
                               fd_info["data"])),
                      _output_buffer, 0, 0, <<>>, "")
         ELSE HostRet(Del(_fds, fd), _fs_interface, _output_buffer, 0, 0, <<>>, "")
\* close that flushes every descriptor that has a buffer
wasi_fd_close_FlushAny(fd) ==
    IF fd \notin DOMAIN _fds THEN Returns(WASI_EBADF)
    ELSE LET fd_info == _fds[fd] IN
         IF "data" \in DOMAIN fd_info /\ ~_fs_interface.none
         THEN HostRet(Del(_fds, fd),
                      FsOf(Put(_fs_interface.files, Get(fd_info, "name", EmptyStr),
                               Slice(fd_info["data"], 0, fd_info["size"]))),
                      _output_buffer, 0, 0, <<>>, "")
         ELSE HostRet(Del(_fds, fd), _fs_interface, _output_buffer, 0, 0, <<>>, "")
\* close that drops the entry and stores nothing
wasi_fd_close_NoFlush(fd) ==
    IF fd \notin DOMAIN _fds THEN Returns(WASI_EBADF)
    ELSE HostRet(Del(_fds, fd), _fs_interface, _output_buffer, 0, 0, <<>>, "")
\* WasiFilesystem.wasi_fd_close
wasi_fd_close(fd) ==
    IF fd \notin DOMAIN _fds THEN Returns(WASI_EBADF)
    ELSE LET fd_info == _fds[fd] IN
         IF "close_data" \in DOMAIN fd_info /\ ~_fs_interface.none THEN
             IF "data" \notin DOMAIN fd_info \/ "size" \notin DOMAIN fd_info THEN
                 \* KeyError inside the try: the entry is dropped, EIO
                 HostRet(Del(_fds, fd), _fs_interface, _output_buffer,
                         WASI_EIO, 0, <<>>, "")
             ELSE
                 LET name == Get(fd_info, "name", EmptyStr)
                     data == Slice(fd_info["data"], 0, fd_info["size"])
                 IN HostRet(Del(_fds, fd),
                            FsOf(Put(_fs_interface.files, name, data)),
                            _output_buffer, 0, 0, <<>>, "")
         ELSE HostRet(Del(_fds, fd), _fs_interface, _output_buffer, 0, 0, <<>>, "")

\* fdstat_get that tells the log streams apart as character devices
wasi_fd_fdstat_get_CharDevice(fd, mem_ok) ==
    IF fd \notin DOMAIN _fds THEN Returns(WASI_EBADF)
    ELSE LET fd_info == _fds[fd]
             filetype == IF "path" \in DOMAIN fd_info THEN 3
                         ELSE IF "type" \in DOMAIN fd_info THEN 2 ELSE 4
         IN IF ~mem_ok THEN Raises(_fds, "IndexError")
            ELSE HostRet(_fds, _fs_interface, _output_buffer, 0, filetype,
                         <<0, 0, 0, 0, 0>>, "")

\* WasiFilesystem.wasi_fd_fdstat_get
wasi_fd_fdstat_get(fd, mem_ok) ==
    IF fd \notin DOMAIN _fds THEN Returns(WASI_EBADF)
    ELSE LET fd_info == _fds[fd]
             filetype == IF "path" \in DOMAIN fd_info THEN 3 ELSE 4
         IN IF ~mem_ok THEN Raises(_fds, "IndexError")
            ELSE HostRet(_fds, _fs_interface, _output_buffer, 0, filetype,
                         <<0, 0, 0, 0, 0>>, "")

\* resolution that drops the mount's prefix
ResolvePath_NoPrefix(mount_path, relative) == relative
\* wasi_path_open32: file_path = self._fds[parent_fd]["path"] + <the path string>
ResolvePath(mount_path, relative) == mount_path \o relative

\* WasiFilesystem.wasi_path_open32; path is None when the bytes at the path
\* pointer are not UTF-8
wasi_path_open32(parent_fd, path, oflags, mem_ok) ==
    IF parent_fd \notin DOMAIN _fds \/ "path" \notin DOMAIN _fds[parent_fd]
    THEN Returns(WASI_EBADF)
    ELSE IF path = None THEN Raises(_fds, "UnicodeDecodeError")
    ELSE
        LET file_path == ResolvePath(_fds[parent_fd]["path"], path[1])
            created == [name |-> file_path, position |-> 0,
                        data |-> Zeros(InitialCapacity), size |-> 0,
                        close_data |-> TRUE]
            fd == _next_fd(_fds)
        IN IF oflags % 2 = 1 THEN
               IF mem_ok
               THEN HostRet(Put(_fds, fd, created), _fs_interface,
                            _output_buffer, 0, fd, <<>>, "")
               ELSE Raises(Put(_fds, fd, created), "IndexError")
           ELSE IF _fs_interface.none \/ file_path \notin DOMAIN _fs_interface.files
           THEN Returns(WASI_EIO)
           ELSE LET stored == _fs_interface.files[file_path]
                    opened == [name |-> file_path, position |-> 0,
                               data |-> stored, size |-> Len(stored)]
                IN IF mem_ok
                   THEN HostRet(Put(_fds, fd, opened), _fs_interface,
                                _output_buffer, 0, fd, <<>>, "")
                   ELSE Raises(Put(_fds, fd, opened), "IndexError")

\* WasiFilesystem.wasi_path_filestat_get
wasi_path_filestat_get(parent_fd, path, mem_ok) ==
    IF parent_fd \notin DOMAIN _fds \/ "path" \notin DOMAIN _fds[parent_fd]
    THEN Returns(WASI_EBADF)
    ELSE IF path = None THEN Raises(_fds, "UnicodeDecodeError")
    ELSE IF ~mem_ok THEN Raises(_fds, "IndexError")
    ELSE HostRet(_fds, _fs_interface, _output_buffer, 0,
                 IF path[1] = Dot THEN 3 ELSE 4, <<>>, "")

\* prestat_get that only asks whether the fd is known
wasi_fd_prestat_get_AnyKnown(fd, mem_ok) ==
    IF fd \notin DOMAIN _fds THEN Returns(WASI_EBADF)
    ELSE IF ~mem_ok THEN Raises(_fds, "IndexError")
    ELSE HostRet(_fds, _fs_interface, _output_buffer, 0,
                 Len(Get(_fds[fd], "mount", EmptyStr)), <<>>, "")
\* WasiFilesystem.wasi_fd_prestat_get
wasi_fd_prestat_get(fd, mem_ok) ==
    IF fd \notin DOMAIN _fds \/ "path" \notin DOMAIN _fds[fd]
    THEN Returns(WASI_EBADF)
    ELSE LET mount == Get(_fds[fd], "mount", EmptyStr) IN
         IF ~mem_ok THEN Raises(_fds, "IndexError")
         ELSE HostRet(_fds, _fs_interface, _output_buffer, 0, Len(mount), <<>>, "")

\* prestat_dir_name that takes any buffer the mount string fits in
wasi_fd_prestat_dir_name_AtLeast(fd, path_len, mem_ok) ==
    IF fd \notin DOMAIN _fds \/ "path" \notin DOMAIN _fds[fd]
    THEN Returns(WASI_EBADF)
    ELSE LET mount == Get(_fds[fd], "mount", EmptyStr) IN
         IF path_len < Len(mount) THEN Returns(WASI_EINVAL)
         ELSE IF ~mem_ok /\ Len(mount) > 0 THEN Raises(_fds, "IndexError")
         ELSE HostRet(_fds, _fs_interface, _output_buffer, 0, 0, mount, "")

\* WasiFilesystem.wasi_fd_prestat_dir_name
wasi_fd_prestat_dir_name(fd, path_len, mem_ok) ==
    IF fd \notin DOMAIN _fds \/ "path" \notin DOMAIN _fds[fd]
    THEN Returns(WASI_EBADF)
    ELSE LET mount == Get(_fds[fd], "mount", EmptyStr) IN
         IF path_len # Len(mount) THEN Returns(WASI_EINVAL)
         ELSE IF ~mem_ok /\ Len(mount) > 0 THEN Raises(_fds, "IndexError")
         ELSE HostRet(_fds, _fs_interface, _output_buffer, 0, 0, mount, "")

\* WasiFilesystem.wasi_path_remove_directory
wasi_path_remove_directory(parent_fd) == Returns(WASI_EINVAL)

\* WasiFilesystem.wasi_fd_fdstat_set_flags
wasi_fd_fdstat_set_flags(fd, flags) == Returns(WASI_ENOSYS)

\* the position the seek arithmetic of wasi_fd_seek32 arrives at
SeekTarget(fd_info, offset, whence) ==
    IF whence = 0 THEN offset
    ELSE IF whence = 1 THEN Get(fd_info, "position", 0) + offset
    ELSE Get(fd_info, "size", 0)

\* the bound test of wasi_fd_seek32: TRUE when the position is refused
SeekRefused(fd_info, new_pos) == new_pos > Get(fd_info, "size", 0)

\* seek that moves the cursor before it tests the bound
wasi_fd_seek32_StoreFirst(fd, offset, whence, mem_ok) ==
    IF fd \notin DOMAIN _fds THEN Returns(WASI_EBADF)
    ELSE LET fd_info == _fds[fd] IN
         IF whence \notin {0, 1, 2} THEN Returns(WASI_EINVAL)
         ELSE LET new_pos == SeekTarget(fd_info, offset, whence)
                  fds2 == Put(_fds, fd, Put(fd_info, "position", new_pos))
                  exc == StoreExc(new_pos, mem_ok)
              IN IF SeekRefused(fd_info, new_pos)
                 THEN HostRet(fds2, _fs_interface, _output_buffer,
                              WASI_EINVAL, 0, <<>>, "")
                 ELSE IF exc # "" THEN Raises(fds2, exc)
                 ELSE HostRet(fds2, _fs_interface, _output_buffer,
                              0, new_pos, <<>>, "")
\* WasiFilesystem.wasi_fd_seek32
wasi_fd_seek32(fd, offset, whence, mem_ok) ==
    IF fd \notin DOMAIN _fds THEN Returns(WASI_EBADF)
    ELSE LET fd_info == _fds[fd] IN
         IF whence \notin {0, 1, 2} THEN Returns(WASI_EINVAL)
         ELSE LET new_pos == SeekTarget(fd_info, offset, whence) IN
              IF SeekRefused(fd_info, new_pos) THEN Returns(WASI_EINVAL)
              ELSE LET fds2 == Put(_fds, fd, Put(fd_info, "position", new_pos))
                       exc == StoreExc(new_pos, mem_ok)
                   IN IF exc # "" THEN Raises(fds2, exc)
                      ELSE HostRet(fds2, _fs_interface, _output_buffer,
                                   0, new_pos, <<>>, "")

\* the loop body of wasi_fd_read over iovecs i..len: buf_lens[i] is the
\* length word of iovec i; st is [info, total, chunks, exc]
RECURSIVE ReadIovs(_, _, _, _)
ReadIovs(st, buf_lens, i, mem_ok) ==
    IF i > Len(buf_lens) \/ st.exc # "" THEN st
    ELSE
        LET fd_info == st.info
            buf_len == buf_lens[i]
            pos == Get(fd_info, "position", 0)
            size == Get(fd_info, "size", 0)
            data == Get(fd_info, "data", <<>>)
            read_len == Min(size - pos, buf_len)
            chunk == [j \in 1..read_len |-> data[pos + j]]
        IN IF read_len > 0 /\ ~mem_ok
           THEN [st EXCEPT !.exc = "IndexError"]
           ELSE ReadIovs([info |-> Put(fd_info, "position", pos + read_len),
                          total |-> st.total + read_len,
                          chunks |-> Append(st.chunks, chunk),
                          exc |-> ""],
                         buf_lens, i + 1, mem_ok)

\* read that leaves the cursor where it was
wasi_fd_read_NoAdvance(fd, buf_lens, mem_ok) ==
    IF fd \notin DOMAIN _fds THEN Returns(WASI_EBADF)
    ELSE LET st == ReadIovs([info |-> _fds[fd], total |-> 0, chunks |-> <<>>,
                             exc |-> ""], buf_lens, 1, mem_ok)
         IN IF ~mem_ok THEN Raises(_fds, "IndexError")
            ELSE HostRet(_fds, _fs_interface, _output_buffer, 0, st.total,
                         st.chunks, "")
\* WasiFilesystem.wasi_fd_read
wasi_fd_read(fd, buf_lens, mem_ok) ==
    IF fd \notin DOMAIN _fds THEN Returns(WASI_EBADF)
    ELSE LET st == ReadIovs([info |-> _fds[fd], total |-> 0, chunks |-> <<>>,
                             exc |-> ""], buf_lens, 1, mem_ok)
             fds2 == Put(_fds, fd, st.info)
             exc == IF st.exc # "" THEN st.exc ELSE StoreExc(st.total, mem_ok)
         IN IF exc # "" THEN Raises(fds2, exc)
            ELSE HostRet(fds2, _fs_interface, _output_buffer, 0, st.total,
                         st.chunks, "")

\* a write that makes its end the end of the file
WriteFile_Truncates(fd_info, write_data) ==
    LET buf_len == Len(write_data)
        pos == Get(fd_info, "position", 0)
        data == Get(fd_info, "data", <<>>)
        grows == pos + buf_len > Len(data)
        new_len == Max(Len(data) * 2, pos + buf_len)
        data2 == IF grows THEN Grow(data, new_len) ELSE data
        data3 == SliceAssign(data2, pos, write_data)
        \* without growth the bytearray is changed in place, and a default
        \* bytearray() that was never stored in the dict is lost
        info2 == IF grows \/ "data" \in DOMAIN fd_info
                 THEN Put(fd_info, "data", data3) ELSE fd_info
        info3 == Put(info2, "position", pos + buf_len)
    IN Put(info3, "size", pos + buf_len)
\* the file branch of the loop body of wasi_fd_write: one iovec written at
\* the cursor of fd_info
WriteFile(fd_info, write_data) ==
    LET buf_len == Len(write_data)
        pos == Get(fd_info, "position", 0)
        data == Get(fd_info, "data", <<>>)
        grows == pos + buf_len > Len(data)
        new_len == Max(Len(data) * 2, pos + buf_len)
        data2 == IF grows THEN Grow(data, new_len) ELSE data
        data3 == SliceAssign(data2, pos, write_data)
        \* without growth the bytearray is changed in place, and a default
        \* bytearray() that was never stored in the dict is lost
        info2 == IF grows \/ "data" \in DOMAIN fd_info
                 THEN Put(fd_info, "data", data3) ELSE fd_info
        info3 == Put(info2, "position", pos + buf_len)
    IN Put(info3, "size", Max(Get(fd_info, "size", 0), pos + buf_len))

\* the loop of wasi_fd_write over iovecs i..len: iovs[i] is the bytes iovec i
\* designates; st is [info, out, total]
RECURSIVE WriteIovs(_, _, _)
WriteIovs(st, iovs, i) ==
    IF i > Len(iovs) THEN st
    ELSE
        LET write_data == iovs[i] IN
        IF Get(st.info, "type", "") = "output"
        THEN WriteIovs([st EXCEPT !.out = st.out \o write_data,
                                  !.total = st.total + Len(write_data)],
                       iovs, i + 1)
        ELSE WriteIovs([st EXCEPT !.info = WriteFile(st.info, write_data),
                                  !.total = st.total + Len(write_data)],
                       iovs, i + 1)

\* wasi_fd_write, had it kept a cursor for the log streams as it does for files
wasi_fd_write_Tracked(fd, iovs, mem_ok) ==
    IF fd \notin DOMAIN _fds THEN Returns(WASI_EBADF)
    ELSE LET st == WriteIovs([info |-> _fds[fd], out |-> _output_buffer,
                              total |-> 0], iovs, 1)
             fds2 == Put(_fds, fd, Put(st.info, "position",
                                       Get(st.info, "position", 0) + st.total))
         IN IF ~mem_ok
            THEN HostRet(fds2, _fs_interface, st.out, -1, 0, <<>>, "IndexError")
            ELSE HostRet(fds2, _fs_interface, st.out, 0, st.total, <<>>, "")

\* WasiFilesystem.wasi_fd_write
wasi_fd_write(fd, iovs, mem_ok) ==
    IF fd \notin DOMAIN _fds THEN Returns(WASI_EBADF)
    ELSE LET st == WriteIovs([info |-> _fds[fd], out |-> _output_buffer,
                              total |-> 0], iovs, 1)
             fds2 == Put(_fds, fd, st.info)
         IN IF ~mem_ok
            THEN HostRet(fds2, _fs_interface, st.out, -1, 0, <<>>, "IndexError")
            ELSE HostRet(fds2, _fs_interface, st.out, 0, st.total, <<>>, "")

---------------------------------------------------------------------------
\* runner.py.  A Path is the name of a file of the working directory.
NameA == <<"a", ".", "g", "l", "b">>
NameAPacked == <<"a", "_", "p", "a", "c", "k", "e", "d", ".", "g", "l", "b">>
NameM == <<"m", ".", "g", "l", "b">>
NameO == <<"o", ".", "g", "l", "b">>
PackedSuffix == <<"_", "p", "a", "c", "k", "e", "d">>
Digits == <<"0", "1", "2", "3", "4", "5", "6", "7", "8", "9">>

\* str.endswith
EndsWith(s, t) ==
    Len(s) >= Len(t) /\ SubSeq(s, Len(s) - Len(t) + 1, Len(s)) = t

\* pathlib: PurePath.suffix and PurePath.stem of a name
LastDot(name) ==
    LET dots == {i \in 1..Len(name) : name[i] = "."} IN
    IF dots = {} THEN 0 ELSE CHOOSE i \in dots : \A j \in dots : j <= i
Suffix(name) ==
    LET i == LastDot(name) IN
    IF i > 1 /\ i < Len(name) THEN SubSeq(name, i, Len(name)) ELSE <<>>
Stem(name) == SubSeq(name, 1, Len(name) - Len(Suffix(name)))

\* runner._resolve_output_path
_resolve_output_path(input_path, output_path) ==
    IF output_path # None THEN output_path[1]
    ELSE LET stem == Stem(input_path)
             stem2 == IF EndsWith(stem, PackedSuffix)
                      THEN SubSeq(stem, 1, Len(stem) - 7) ELSE stem
         IN stem2 \o PackedSuffix \o Suffix(input_path)

\* A simplify_ratio is None or a value [t, v]: t is its Python type and, for
\* a float, v is the number in hundredths.
Float(v) == [t |-> "float", v |-> v]
IllTyped == [t |-> "str", v |-> 0]
\* str(x) of a float 0 <= x with at most two decimals
StrFloat(v) ==
    <<Digits[(v \div 100) + 1], ".">> \o
    (IF v % 10 = 0 THEN <<Digits[((v % 100) \div 10) + 1]>>
     ELSE <<Digits[((v % 100) \div 10) + 1], Digits[(v % 10) + 1]>>)

Msg(text, detail) == [text |-> text, detail |-> detail]
NoMsg == Msg("", <<>>)

\* _build_args, had it put the simplification before the mesh compression
_build_args_RatioFirst(mesh_compress, simplify_ratio) ==
    LET args == IF mesh_compress THEN << <<"-", "c", "c">> >> ELSE <<>> IN
    IF simplify_ratio = None
    THEN [args |-> args, error |-> NoMsg, exc |-> ""]
    ELSE LET r == simplify_ratio[1] IN
         IF r.t # "float"
         THEN [args |-> <<>>, error |-> NoMsg, exc |-> "TypeError"]
         ELSE IF ~(0 <= r.v /\ r.v <= 100)
         THEN [args |-> <<>>,
               error |-> Msg("simplify_ratio must be [0.0, 1.0]: ", <<r.v>>),
               exc |-> ""]
         ELSE [args |-> << <<"-", "s", "i">>, StrFloat(r.v) >> \o args,
               error |-> NoMsg, exc |-> ""]

\* _build_args, had it excluded the two ends of the range
_build_args_Exclusive(mesh_compress, simplify_ratio) ==
    LET args == IF mesh_compress THEN << <<"-", "c", "c">> >> ELSE <<>> IN
    IF simplify_ratio = None
    THEN [args |-> args, error |-> NoMsg, exc |-> ""]
    ELSE LET r == simplify_ratio[1] IN
         IF r.t # "float"
         THEN [args |-> <<>>, error |-> NoMsg, exc |-> "TypeError"]
         ELSE IF ~(0 < r.v /\ r.v < 100)
         THEN [args |-> <<>>,
               error |-> Msg("simplify_ratio must be [0.0, 1.0]: ", <<r.v>>),
               exc |-> ""]
         ELSE [args |-> args \o << <<"-", "s", "i">>, StrFloat(r.v) >>,
               error |-> NoMsg, exc |-> ""]

\* runner._build_args: (args, error), or the exception the comparison raises
_build_args(mesh_compress, simplify_ratio) ==
    LET args == IF mesh_compress THEN << <<"-", "c", "c">> >> ELSE <<>> IN
    IF simplify_ratio = None
    THEN [args |-> args, error |-> NoMsg, exc |-> ""]
    ELSE LET r == simplify_ratio[1] IN
         IF r.t # "float"
         THEN [args |-> <<>>, error |-> NoMsg, exc |-> "TypeError"]
         ELSE IF ~(0 <= r.v /\ r.v <= 100)
         THEN [args |-> <<>>,
               error |-> Msg("simplify_ratio must be [0.0, 1.0]: ", <<r.v>>),
               exc |-> ""]
         ELSE [args |-> args \o << <<"-", "s", "i">>, StrFloat(r.v) >>,
               error |-> NoMsg, exc |-> ""]

\* the ways run_gltfpack_wasm ends
NoResult ==
    [kind |-> "none", success |-> FALSE, path |-> <<>>, message |-> NoMsg, exc |-> ""]
Returned(success, path, message) ==
    [kind |-> "returned", success |-> success, path |-> path,
     message |-> message, exc |-> ""]
Raised(exc) ==
    [kind |-> "raised", success |-> FALSE, path |-> <<>>, message |-> NoMsg, exc |-> exc]

\* the except clauses of runner._execute
ExecuteExcept(exc, output_path) ==
    IF exc = "UnicodeDecodeError"
    THEN Returned(FALSE, output_path, Msg("Log decode error: ", <<>>))
    ELSE IF exc = "OSError"
    THEN Returned(FALSE, output_path, Msg("File I/O error: ", <<>>))
    ELSE IF exc \in {"ValueError", "TypeError"}
    THEN Returned(FALSE, output_path, Msg("Argument error: ", <<>>))
    ELSE Raised(exc)

\* bytes.decode("utf-8", errors="replace"), as code points
DecodeReplace(b) == [i \in 1..Len(b) |-> IF b[i] < 128 THEN b[i] ELSE 65533]

\* wasm.is_available
is_available(wasmtime_installed, wasm_exists) == wasmtime_installed /\ wasm_exists

NoCall ==
    [input_path |-> <<>>, output_path |-> <<>>, input_data |-> <<>>,
     mesh_compress |-> FALSE, simplify_ratio |-> None,
     args |-> <<>>, argv |-> <<>>, prev_dirty |-> FALSE]

---------------------------------------------------------------------------
\* Inputs.
FdArgs == 1..(5 + MaxOpen)
GuestPaths == {Some(NameA), Some(NameAPacked), Some(Dot), None}
Oflags == {0, 1}
Offsets == (0 - 1)..MaxLen
Whences == 0..3
BufLens == SeqsUpTo(0..MaxIovLen, MaxIovs)
Iovs == SeqsUpTo(SeqsUpTo(Byte, MaxIovLen), MaxIovs)
InputContents == {[i \in 1..n |-> ((i - 1) % MaxByte) + 1] : n \in 0..MaxLen}
InputPaths == {NameA, NameAPacked, NameM}
OutputPaths == {None, Some(NameO)}
Ratios ==
    {None, Some(Float(0 - 1)), Some(Float(0)), Some(Float(50)), Some(Float(100)),
     Some(Float(101)), Some(IllTyped)}
TextureQualities == {None, Some(0)}
InitExcs == {"", "OSError", "WasmtimeError"}
UploadExcs == {"", "Trap", "IndexError"}
WriteFaults == {"none", "open", "write"}
ReturnCodes == {0, 1}
RECURSIVE SumLens(_)
SumLens(iovs) == IF iovs = <<>> THEN 0 ELSE Len(Head(iovs)) + SumLens(Tail(iovs))

---------------------------------------------------------------------------
\* Actions.
NoneMade == [engines |-> 0, instances |-> 0]
NoNative == [at |-> "idle"]
\* no pack has called malloc yet
NoHeap == [at |-> "idle"]
\* nobody calls pack
NoThreads == <<>>

\* get_gltfpack that builds a GltfpackWasm at every call
GetGltfpack_Always(m) == [m EXCEPT !.engines = @ + 1]

\* _initialize without its early return
Initialize_Always(m) == [m EXCEPT !.instances = @ + 1]

\* runner.get_gltfpack: a GltfpackWasm is built only while there is none
GetGltfpack(m) == IF _gltfpack THEN m ELSE [m EXCEPT !.engines = @ + 1]

\* GltfpackWasm._initialize: an instance is built only while there is none
Initialize(m) == IF _instance THEN m ELSE [m EXCEPT !.instances = @ + 1]

StubStart == [at |-> "open_input", in_fd |-> 0, out_fd |-> 0, buf |-> <<>>]

Init ==
    /\ _gltfpack = FALSE
    /\ _instance = FALSE
    /\ _fds = NoFds
    /\ _fs_interface = FsNone
    /\ _output_buffer = <<>>
    /\ disk \in {NameA :> content : content \in InputContents}
    /\ pc = "idle"
    /\ call = NoCall
    /\ result = NoResult
    /\ ncalls = 0
    /\ runs = 0
    /\ made = NoneMade
    /\ returned_fds = {}
    /\ guest = StubStart
    /\ memory = <<>>
    /\ native = NoNative
    /\ heap = NoHeap
    /\ threads = NoThreads

\* run_gltfpack_wasm comes back to its caller with res
Finish(res) ==
    /\ pc' = "idle"
    /\ result' = res
    /\ call' = NoCall
    /\ ncalls' = 0

\* the argv pack hands to the guest; argc is its length
pack_argv(input_name, output_name, args) ==
    << <<"g", "l", "t", "f", "p", "a", "c", "k">>, <<"-", "i">>, input_name,
       <<"-", "o">>, output_name >> \o args

\* seeding that adds the input to the files already there
SeedFs_Update(input_name, input_data) ==
    FsOf((input_name :> input_data) @@ _fs_interface.files)
\* GltfpackWasm.pack: self._fs_interface = {input_name: input_data}
SeedFs(input_name, input_data) == FsOf(input_name :> input_data)

\* GltfpackWasm.pack from _init_fds to the call of the guest's pack;
\* upload_exc is what _upload_argv raises ("" when it succeeds)
PackBody(c, upload_exc) ==
    /\ _fds' = InitFds
    /\ _output_buffer' = <<>>
    /\ returned_fds' = {}
    /\ _fs_interface' = SeedFs(c.input_path, c.input_data)
    /\ UNCHANGED disk
    /\ IF upload_exc = ""
       THEN /\ pc' = "guest"
            /\ call' = [c EXCEPT !.argv = pack_argv(c.input_path, c.output_path, c.args),
                                 !.prev_dirty =
                           (\E fd \in DOMAIN _fds : fd >= 5) \/ _output_buffer # <<>>]
            /\ ncalls' = 0
            /\ result' = NoResult
       ELSE Finish(ExecuteExcept(upload_exc, c.output_path))

\* the early returns of runner.run_gltfpack_wasm, in their order: the result
\* returned (or the exception raised) before _execute, NoResult when none is
\* taken; files are the paths that are files on disk
run_gltfpack_wasm_return(input_path, mesh_compress, simplify_ratio, wasmtime, wasm_exists, files) ==
    LET built == _build_args(mesh_compress, simplify_ratio) IN
    IF ~is_available(wasmtime, wasm_exists)
    THEN IF ~wasm_exists
         THEN Returned(FALSE, input_path, Msg("WASM file not found at ", <<>>))
         ELSE Returned(FALSE, input_path,
                       Msg("WASM runtime not available (wasmtime not installed)", <<>>))
    ELSE IF input_path \notin files
    THEN Returned(FALSE, input_path, Msg("Input file not found: ", input_path))
    ELSE IF built.exc # "" THEN Raised(built.exc)
    ELSE IF built.error # NoMsg THEN Returned(FALSE, input_path, built.error)
    ELSE NoResult

\* runner.run_gltfpack_wasm up to its call of _execute
run_gltfpack_wasm(input_path, output_path, texture_compress, mesh_compress, simplify_ratio, texture_quality, wasmtime, wasm_exists) ==
    /\ pc = "idle"
    /\ UNCHANGED units
    /\ runs < MaxRuns
    /\ _gltfpack \/ made.engines < MaxEngines
    /\ runs' = runs + 1
    /\ UNCHANGED made
    /\ UNCHANGED <<_gltfpack, _instance, _fds, _fs_interface, _output_buffer,
                   disk, returned_fds>>
    /\ LET built == _build_args(mesh_compress, simplify_ratio)
           early == run_gltfpack_wasm_return(input_path, mesh_compress, simplify_ratio,
                                            wasmtime, wasm_exists, DOMAIN disk) IN
       IF early # NoResult THEN Finish(early)
       ELSE /\ pc' = "execute"
            /\ call' = [input_path |-> input_path,
                        output_path |-> _resolve_output_path(input_path, output_path),
                        input_data |-> <<>>,
                        mesh_compress |-> mesh_compress,
                        simplify_ratio |-> simplify_ratio,
                        args |-> built.args,
                        argv |-> <<>>,
                        prev_dirty |-> FALSE]
            /\ ncalls' = 0
            /\ result' = NoResult

\* runner._execute, with GltfpackWasm._initialize and the start of pack, up
\* to the point where guest code runs
_execute(read_ok, init_exc, has_ctors, upload_exc) ==
    /\ pc = "execute"
    /\ UNCHANGED units
    /\ _gltfpack' = TRUE
    /\ UNCHANGED runs
    /\ IF ~read_ok
       THEN /\ Finish(ExecuteExcept("OSError", call.output_path))
            /\ made' = GetGltfpack(made)
            /\ UNCHANGED <<_instance, _fds, _fs_interface, _output_buffer,
                           disk, returned_fds>>
       ELSE LET c == [call EXCEPT !.input_data = disk[call.input_path]] IN
            IF _instance
            THEN /\ UNCHANGED _instance
                 /\ made' = Initialize(GetGltfpack(made))
                 /\ PackBody(c, upload_exc)
            ELSE IF init_exc # ""
            THEN /\ Finish(ExecuteExcept(init_exc, call.output_path))
                 /\ made' = GetGltfpack(made)
                 /\ UNCHANGED <<_instance, _fds, _fs_interface, _output_buffer,
                                disk, returned_fds>>
            ELSE /\ _instance' = TRUE
                 /\ made' = Initialize(GetGltfpack(made))
                 /\ IF has_ctors
                    THEN /\ pc' = "ctors"
                         /\ call' = c
                         /\ ncalls' = 0
                         /\ result' = NoResult
                         /\ UNCHANGED <<_fds, _fs_interface, _output_buffer,
                                        disk, returned_fds>>
                    ELSE PackBody(c, upload_exc)

\* __wasm_call_ctors returns and pack goes on
ctors_return(upload_exc) ==
    /\ pc = "ctors"
    /\ UNCHANGED units
    /\ PackBody(call, upload_exc)
    /\ UNCHANGED <<_gltfpack, _instance, runs, made>>

\* pack, had it returned the file under output_name whatever the return code
pack_result_AnyCode(result_code, output_buffer, fs, output_name) ==
    [success |-> result_code = 0,
     output_data |-> Get(fs.files, output_name, <<>>),
     log |-> DecodeReplace(output_buffer)]

\* what pack returns once the guest's pack has returned result_code
pack_result(result_code, output_buffer, fs, output_name) ==
    LET log == DecodeReplace(output_buffer)
    IN IF result_code # 0
       THEN [success |-> FALSE, output_data |-> <<>>, log |-> log]
       ELSE [success |-> TRUE,
             output_data |-> Get(fs.files, output_name, <<>>),
             log |-> log]

\* the guest's pack returns result_code: the rest of pack and of _execute
pack_return(result_code, write_fault) ==
    /\ pc = "guest"
    /\ UNCHANGED units
    /\ LET packed == pack_result(result_code, _output_buffer, _fs_interface, call.output_path)
       IN IF ~packed.success
          THEN /\ Finish(Returned(FALSE, call.output_path,
                                  Msg("gltfpack failed: ", packed.log)))
               /\ UNCHANGED disk
          ELSE IF write_fault = "none"
          THEN /\ disk' = Put(disk, call.output_path, packed.output_data)
               /\ Finish(Returned(TRUE, call.output_path, Msg("Success", <<>>)))
          ELSE /\ disk' = IF write_fault = "open" THEN disk
                          ELSE Put(disk, call.output_path, <<>>)
               /\ Finish(ExecuteExcept("OSError", call.output_path))
    /\ UNCHANGED <<_gltfpack, _instance, _fds, _fs_interface, _output_buffer,
                   returned_fds, runs, made>>

\* guest code traps (unreachable, out-of-bounds access, ...)
guest_trap ==
    /\ pc \in {"ctors", "guest"}
    /\ UNCHANGED units
    /\ Finish(ExecuteExcept("Trap", call.output_path))
    /\ UNCHANGED <<_gltfpack, _instance, _fds, _fs_interface, _output_buffer,
                   disk, returned_fds, runs, made>>

\* runner.get_gltfpack called on its own
get_gltfpack ==
    /\ pc = "idle"
    /\ UNCHANGED units
    /\ _gltfpack \/ made.engines < MaxEngines
    /\ _gltfpack' = TRUE
    /\ made' = GetGltfpack(made)
    /\ UNCHANGED <<_instance, _fds, _fs_interface, _output_buffer, disk, pc,
                   call, result, ncalls, runs, returned_fds>>

\* runner.reset_gltfpack: the next get_gltfpack builds a new GltfpackWasm
reset_gltfpack ==
    /\ pc = "idle"
    /\ UNCHANGED units
    /\ _gltfpack' = FALSE
    /\ _instance' = FALSE
    /\ _fds' = NoFds
    /\ _fs_interface' = FsNone
    /\ _output_buffer' = <<>>
    /\ UNCHANGED <<disk, pc, call, result, ncalls, runs, made, returned_fds>>

\* A host call made by running guest code: r is what the WASI function does.
\* An exception leaving the host function unwinds pack into _execute.
Host(r, opens) ==
    /\ pc \in {"ctors", "guest"}
    /\ UNCHANGED units
    /\ _fds' = r.fds
    /\ _fs_interface' = r.fs
    /\ _output_buffer' = r.out
    /\ returned_fds' = IF opens /\ r.status = 0 THEN returned_fds \cup {r.val}
                       ELSE returned_fds
    /\ IF r.exc = ""
       THEN /\ ncalls' = ncalls + 1
            /\ UNCHANGED <<pc, call, result>>
       ELSE Finish(ExecuteExcept(r.exc, call.output_path))
    /\ UNCHANGED <<_gltfpack, _instance, disk, runs, made>>

\* a host call of guest code that is not the copying guest
GuestCall(r, opens) == Host(r, opens) /\ UNCHANGED guest

proc_exit(rval) == GuestCall(wasi_proc_exit(rval), FALSE)
fd_close(fd) == GuestCall(wasi_fd_close(fd), FALSE)
fd_fdstat_get(fd, mem_ok) == GuestCall(wasi_fd_fdstat_get(fd, mem_ok), FALSE)
path_open32(parent_fd, path, oflags, mem_ok) ==
    /\ Cardinality({fd \in DOMAIN _fds : fd >= 5}) < MaxOpen
    /\ GuestCall(wasi_path_open32(parent_fd, path, oflags, mem_ok), TRUE)
path_filestat_get(parent_fd, path, mem_ok) ==
    GuestCall(wasi_path_filestat_get(parent_fd, path, mem_ok), FALSE)
fd_prestat_get(fd, mem_ok) == GuestCall(wasi_fd_prestat_get(fd, mem_ok), FALSE)
fd_prestat_dir_name(fd, path_len, mem_ok) ==
    GuestCall(wasi_fd_prestat_dir_name(fd, path_len, mem_ok), FALSE)
path_remove_directory(parent_fd) == GuestCall(wasi_path_remove_directory(parent_fd), FALSE)
fd_fdstat_set_flags(fd, flags) == GuestCall(wasi_fd_fdstat_set_flags(fd, flags), FALSE)
fd_seek32(fd, offset, whence, mem_ok) ==
    GuestCall(wasi_fd_seek32(fd, offset, whence, mem_ok), FALSE)
fd_read(fd, buf_lens, mem_ok) == GuestCall(wasi_fd_read(fd, buf_lens, mem_ok), FALSE)
fd_write(fd, iovs, mem_ok) ==
    /\ fd \in DOMAIN _fds =>
          IF Get(_fds[fd], "type", "") = "output"
          THEN Len(_output_buffer) + SumLens(iovs) <= MaxLog
          ELSE Get(_fds[fd], "position", 0) + SumLens(iovs) <= MaxLen
    /\ GuestCall(wasi_fd_write(fd, iovs, mem_ok), FALSE)

Next ==
    \/ \E input_path \in InputPaths, output_path \in OutputPaths,
          texture_compress \in BOOLEAN, mesh_compress \in BOOLEAN,
          simplify_ratio \in Ratios, texture_quality \in TextureQualities,
          wasmtime \in BOOLEAN, wasm_exists \in BOOLEAN :
          /\ run_gltfpack_wasm(input_path, output_path, texture_compress,
                               mesh_compress, simplify_ratio, texture_quality,
                               wasmtime, wasm_exists)
          /\ UNCHANGED guest
    \/ \E read_ok \in BOOLEAN, init_exc \in InitExcs, has_ctors \in BOOLEAN,
          upload_exc \in UploadExcs :
          _execute(read_ok, init_exc, has_ctors, upload_exc) /\ UNCHANGED guest
    \/ \E upload_exc \in UploadExcs : ctors_return(upload_exc) /\ UNCHANGED guest
    \/ \E result_code \in ReturnCodes, write_fault \in WriteFaults :
          pack_return(result_code, write_fault) /\ UNCHANGED guest
    \/ guest_trap /\ UNCHANGED guest
    \/ get_gltfpack /\ UNCHANGED guest
    \/ reset_gltfpack /\ UNCHANGED guest
    \/ \E rval \in ReturnCodes : ncalls < RunCalls /\ proc_exit(rval)
    \/ \E fd \in FdArgs : ncalls < RunCalls /\ fd_close(fd)
    \/ \E fd \in FdArgs, mem_ok \in BOOLEAN :
          ncalls < RunCalls /\ fd_fdstat_get(fd, mem_ok)
    \/ \E parent_fd \in FdArgs, path \in GuestPaths, oflags \in Oflags, mem_ok \in BOOLEAN :
          ncalls < RunCalls /\ path_open32(parent_fd, path, oflags, mem_ok)
    \/ \E parent_fd \in FdArgs, path \in GuestPaths, mem_ok \in BOOLEAN :
          ncalls < RunCalls /\ path_filestat_get(parent_fd, path, mem_ok)
    \/ \E fd \in FdArgs, mem_ok \in BOOLEAN :
          ncalls < RunCalls /\ fd_prestat_get(fd, mem_ok)
    \/ \E fd \in FdArgs, path_len \in {1, Len(MountPwd)}, mem_ok \in BOOLEAN :
          ncalls < RunCalls /\ fd_prestat_dir_name(fd, path_len, mem_ok)
    \/ \E parent_fd \in FdArgs : ncalls < RunCalls /\ path_remove_directory(parent_fd)
    \/ \E fd \in FdArgs, flags \in {0} :
          ncalls < RunCalls /\ fd_fdstat_set_flags(fd, flags)
    \/ \E fd \in FdArgs, offset \in Offsets, whence \in Whences, mem_ok \in BOOLEAN :
          ncalls < RunCalls /\ fd_seek32(fd, offset, whence, mem_ok)
    \/ \E fd \in FdArgs, buf_lens \in BufLens, mem_ok \in BOOLEAN :
          ncalls < RunCalls /\ fd_read(fd, buf_lens, mem_ok)
    \/ \E fd \in FdArgs, iovs \in Iovs, mem_ok \in BOOLEAN :
          ncalls < RunCalls /\ fd_write(fd, iovs, mem_ok)

Spec == Init /\ [][Next]_vars

\* The host-call layer on its own: one guest run, entered by pack with
\* a.glb as input and a_packed.glb as output.
InitWasi ==
    /\ _gltfpack = TRUE
    /\ _instance = TRUE
    /\ _fds = InitFds
    /\ _output_buffer = <<>>
    /\ disk \in {NameA :> content : content \in InputContents}
    /\ _fs_interface = SeedFs(NameA, disk[NameA])
    /\ pc = "guest"
    /\ call = [input_path |-> NameA, output_path |-> NameAPacked,
               input_data |-> disk[NameA],
               mesh_compress |-> FALSE, simplify_ratio |-> None,
               args |-> <<>>,
               argv |-> pack_argv(NameA, NameAPacked, <<>>),
               prev_dirty |-> FALSE]
    /\ result = NoResult
    /\ ncalls = 0
    /\ runs = 0
    /\ made = [engines |-> 1, instances |-> 1]
    /\ returned_fds = {}
    /\ guest = StubStart
    /\ memory = <<>>
    /\ native = NoNative
    /\ heap = NoHeap
    /\ threads = NoThreads

\* the guest makes host calls, with every pointer inside its memory
NextWasi ==
    \/ \E rval \in ReturnCodes : ncalls < MaxCalls /\ proc_exit(rval)
    \/ \E fd \in FdArgs : ncalls < MaxCalls /\ fd_close(fd)
    \/ \E fd \in FdArgs, mem_ok \in {TRUE} :
          ncalls < MaxCalls /\ fd_fdstat_get(fd, mem_ok)
    \/ \E parent_fd \in FdArgs, path \in GuestPaths, oflags \in Oflags, mem_ok \in {TRUE} :
          ncalls < MaxCalls /\ path_open32(parent_fd, path, oflags, mem_ok)
    \/ \E parent_fd \in FdArgs, path \in GuestPaths, mem_ok \in {TRUE} :
          ncalls < MaxCalls /\ path_filestat_get(parent_fd, path, mem_ok)
    \/ \E fd \in FdArgs, mem_ok \in {TRUE} :
          ncalls < MaxCalls /\ fd_prestat_get(fd, mem_ok)
    \/ \E fd \in FdArgs, path_len \in {1, Len(MountPwd)}, mem_ok \in {TRUE} :
          ncalls < MaxCalls /\ fd_prestat_dir_name(fd, path_len, mem_ok)
    \/ \E parent_fd \in FdArgs : ncalls < MaxCalls /\ path_remove_directory(parent_fd)
    \/ \E fd \in FdArgs, flags \in {0} :
          ncalls < MaxCalls /\ fd_fdstat_set_flags(fd, flags)
    \/ \E fd \in FdArgs, offset \in Offsets, whence \in Whences, mem_ok \in {TRUE} :
          ncalls < MaxCalls /\ fd_seek32(fd, offset, whence, mem_ok)
    \/ \E fd \in FdArgs, buf_lens \in BufLens, mem_ok \in {TRUE} :
          ncalls < MaxCalls /\ fd_read(fd, buf_lens, mem_ok)
    \/ \E fd \in FdArgs, iovs \in Iovs, mem_ok \in {TRUE} :
          ncalls < MaxCalls /\ fd_write(fd, iovs, mem_ok)

SpecWasi == InitWasi /\ [][NextWasi]_vars

---------------------------------------------------------------------------
\* The memory accessors on their own, on a memory of MemSize bytes.
MemOffsets == (0 - MemSize - 1)..(MemSize + 1)
MemLengths == 0..(MemSize + 1)
U8Values == {0, 1, 256 + 255, 0 - 1}
U32Values ==
    {Word(0, 0), Word(0, 256), Word(255 * 256, 1), Word(2 ^ 16 - 1, 2 ^ 16 - 1),
     Word(2 ^ 16, 0), Word(0 - 1, 2 ^ 16 - 1)}

core == <<_gltfpack, _instance, _fds, _fs_interface, _output_buffer, disk,
          pc, call, result, ncalls, runs, made, returned_fds, guest>>

InitMem ==
    /\ _gltfpack = FALSE
    /\ _instance = FALSE
    /\ _fds = NoFds
    /\ _fs_interface = FsNone
    /\ _output_buffer = <<>>
    /\ disk = EmptyDict
    /\ pc = "idle"
    /\ call = NoCall
    /\ result = NoResult
    /\ ncalls = 0
    /\ runs = 0
    /\ made = NoneMade
    /\ returned_fds = {}
    /\ guest = StubStart
    /\ memory \in {[i \in 1..MemSize |-> b] : b \in {0, 1}}
    /\ native = NoNative
    /\ heap = NoHeap
    /\ threads = NoThreads

set_u8(offset, value) ==
    /\ memory' = _set_u8(memory, offset, value).mem
    /\ UNCHANGED <<core, native, heap, threads>>
set_u32(offset, value) ==
    /\ memory' = _set_u32(memory, offset, value).mem
    /\ UNCHANGED <<core, native, heap, threads>>
get_u32(offset) ==
    /\ memory' = _get_u32(memory, offset).mem
    /\ UNCHANGED <<core, native, heap, threads>>
get_string(offset, length) ==
    /\ memory' = _get_string(memory, offset, length).mem
    /\ UNCHANGED <<core, native, heap, threads>>

NextMem ==
    \/ \E offset \in MemOffsets, value \in U8Values : set_u8(offset, value)
    \/ \E offset \in MemOffsets, value \in U32Values : set_u32(offset, value)
    \/ \E offset \in MemOffsets : get_u32(offset)
    \/ \E offset \in MemOffsets, length \in MemLengths : get_string(offset, length)

SpecMem == InitMem /\ [][NextMem]_vars

---------------------------------------------------------------------------
\* utils/gltfpack.py: the functions run_gltfpack is made of, each on its own.
\* A value of an optional argument is None or Some of [t, v], t its Python
\* type; v is the integer of an int, 1 or 0 for the bools True and False,
\* and the number in hundredths of a float.
Integer(v) == [t |-> "int", v |-> v]
Bool(v) == [t |-> "bool", v |-> IF v THEN 1 ELSE 0]

\* str.lower on the values the environment variables take here
Lower(s) == IF s = "TRUE" THEN "true" ELSE IF s = "Yes" THEN "yes" ELSE s
\* os.environ.get(NAME, "").lower() in ("1", "true", "yes")
EnvFlag(value) == Lower(value) \in {"1", "true", "yes"}

\* a pair (value, error_result) with no error, and one with an error
Fine(value) == [value |-> value, error |-> None]
Failed(input_path, text) ==
    [value |-> None, error |-> Some(Returned(FALSE, input_path, Msg(text, <<>>)))]

\* _select_backend, had a forced native backend fallen back to WASM
_select_backend_Fallback(input_path, prefer_wasm, gltfpack, env_native, env_wasm, wasm_available) ==
    LET force_native == EnvFlag(env_native)
        force_wasm == EnvFlag(env_wasm)
    IN IF force_native /\ force_wasm
       THEN Failed(input_path, "Cannot force both native and WASM backends")
       ELSE IF force_native
       THEN IF gltfpack = None
            THEN (IF wasm_available THEN Fine(Some(TRUE))
                  ELSE Failed(input_path, "NOTSO_GLB_FORCE_GLTFPACK_NATIVE set but native gltfpack not found"))
            ELSE Fine(Some(FALSE))
       ELSE IF force_wasm
       THEN IF ~wasm_available
            THEN Failed(input_path, "NOTSO_GLB_FORCE_GLTFPACK_WASM set but WASM runtime unavailable")
            ELSE Fine(Some(TRUE))
       ELSE IF prefer_wasm
       THEN IF wasm_available THEN Fine(Some(TRUE))
            ELSE IF gltfpack # None THEN Fine(Some(FALSE))
            ELSE Failed(input_path, "prefer_wasm=True but WASM unavailable and no native fallback")
       ELSE IF gltfpack = None
       THEN IF wasm_available THEN Fine(Some(TRUE))
            ELSE Failed(input_path, "gltfpack not found and WASM fallback unavailable")
       ELSE Fine(Some(FALSE))

\* _select_backend; env_native and env_wasm are the values of the two
\* environment variables, wasm_available what _wasm_available() returns
_select_backend(input_path, prefer_wasm, gltfpack, env_native, env_wasm, wasm_available) ==
    LET force_native == EnvFlag(env_native)
        force_wasm == EnvFlag(env_wasm)
    IN IF force_native /\ force_wasm
       THEN Failed(input_path, "Cannot force both native and WASM backends")
       ELSE IF force_native
       THEN IF gltfpack = None
            THEN Failed(input_path, "NOTSO_GLB_FORCE_GLTFPACK_NATIVE set but native gltfpack not found")
            ELSE Fine(Some(FALSE))
       ELSE IF force_wasm
       THEN IF ~wasm_available
            THEN Failed(input_path, "NOTSO_GLB_FORCE_GLTFPACK_WASM set but WASM runtime unavailable")
            ELSE Fine(Some(TRUE))
       ELSE IF prefer_wasm
       THEN IF wasm_available THEN Fine(Some(TRUE))
            ELSE IF gltfpack # None THEN Fine(Some(FALSE))
            ELSE Failed(input_path, "prefer_wasm=True but WASM unavailable and no native fallback")
       ELSE IF gltfpack = None
       THEN IF wasm_available THEN Fine(Some(TRUE))
            ELSE Failed(input_path, "gltfpack not found and WASM fallback unavailable")
       ELSE Fine(Some(FALSE))

\* _validate_simplify_ratio: float(ratio), then the range test
_validate_simplify_ratio(ratio, input_path) ==
    IF ratio = None THEN Fine(None)
    ELSE LET r == ratio[1] IN
         IF r.t = "str"
         THEN Failed(input_path, "simplify_ratio must be a number, got ")
         ELSE LET x == IF r.t = "float" THEN r.v ELSE 100 * r.v
              IN IF ~(0 <= x /\ x <= 100)
                 THEN Failed(input_path, "simplify_ratio must be in [0.0, 1.0], got ")
                 ELSE Fine(Some(Float(x)))

\* _validate_texture_quality without its test for bool
_validate_texture_quality_BoolAsInt(quality, input_path) ==
    IF quality = None THEN Fine(None)
    ELSE LET q == quality[1] IN
         IF q.t = "float" /\ q.v % 100 # 0
         THEN Failed(input_path, "texture_quality must be an integer, non-integer float provided")
         ELSE IF q.t = "str"
         THEN Failed(input_path, "texture_quality must be an integer, got ")
         ELSE LET n == IF q.t = "float" THEN q.v \div 100 ELSE q.v
              IN IF ~(1 <= n /\ n <= 10)
                 THEN Failed(input_path, "texture_quality must be in [1, 10], got ")
                 ELSE Fine(Some(n))

\* _validate_texture_quality
_validate_texture_quality(quality, input_path) ==
    IF quality = None THEN Fine(None)
    ELSE LET q == quality[1] IN
         IF q.t = "bool"
         THEN Failed(input_path, "texture_quality must be an integer, bool provided")
         ELSE IF q.t = "float" /\ q.v % 100 # 0
         THEN Failed(input_path, "texture_quality must be an integer, non-integer float provided")
         ELSE IF q.t = "str"
         THEN Failed(input_path, "texture_quality must be an integer, got ")
         ELSE LET n == IF q.t = "float" THEN q.v \div 100 ELSE q.v
              IN IF ~(1 <= n /\ n <= 10)
                 THEN Failed(input_path, "texture_quality must be in [1, 10], got ")
                 ELSE Fine(Some(n))

NameDot == <<"a", ".">>
NameBare == <<"a">>
NameHidden == <<".", "g", "l", "b">>
NativePaths == {NameA, NameAPacked, NameM, NameDot, NameBare, NameHidden, PackedSuffix}
EnvValues == {"", "1", "TRUE", "no"}
Binaries == {None, Some(<<"g", "l", "t", "f", "p", "a", "c", "k">>)}
NativeRatios ==
    {None, Some(Float(0)), Some(Float(50)), Some(Float(100)), Some(Float(101)),
     Some(Float(0 - 1)), Some(Integer(1)), Some(Integer(2)), Some(Bool(TRUE)), Some(IllTyped)}
NativeQualities ==
    {None, Some(IllTyped), Some(Bool(TRUE)), Some(Bool(FALSE))}
    \cup {Some(Integer(n)) : n \in (0 - 1)..(MaxQuality + 1)}
    \cup {Some(Float(x)) : x \in {0, 50, 100, 550, 100 * MaxQuality, 100 * MaxQuality + 1,
                                  100 * (MaxQuality + 1)}}

InitNative ==
    /\ _gltfpack = FALSE
    /\ _instance = FALSE
    /\ _fds = NoFds
    /\ _fs_interface = FsNone
    /\ _output_buffer = <<>>
    /\ disk = EmptyDict
    /\ pc = "idle"
    /\ call = NoCall
    /\ result = NoResult
    /\ ncalls = 0
    /\ runs = 0
    /\ made = NoneMade
    /\ returned_fds = {}
    /\ guest = StubStart
    /\ memory = <<>>
    /\ native = NoNative
    /\ heap = NoHeap
    /\ threads = NoThreads

\* one call of a function: native holds its name, arguments and return value
select_backend(input_path, prefer_wasm, gltfpack, env_native, env_wasm, wasm_available) ==
    /\ native' = [at |-> "_select_backend",
                  args |-> [input_path |-> input_path, prefer_wasm |-> prefer_wasm,
                            gltfpack |-> gltfpack, env_native |-> env_native,
                            env_wasm |-> env_wasm, wasm_available |-> wasm_available],
                  ret |-> _select_backend(input_path, prefer_wasm, gltfpack,
                                          env_native, env_wasm, wasm_available)]
    /\ UNCHANGED <<core, memory, heap, threads>>
resolve_output_path(input_path, output_path) ==
    /\ native' = [at |-> "_resolve_output_path",
                  args |-> [input_path |-> input_path, output_path |-> output_path],
                  ret |-> _resolve_output_path(input_path, output_path)]
    /\ UNCHANGED <<core, memory, heap, threads>>
validate_simplify_ratio(ratio, input_path) ==
    /\ native' = [at |-> "_validate_simplify_ratio",
                  args |-> [ratio |-> ratio, input_path |-> input_path],
                  ret |-> _validate_simplify_ratio(ratio, input_path)]
    /\ UNCHANGED <<core, memory, heap, threads>>
validate_texture_quality(quality, input_path) ==
    /\ native' = [at |-> "_validate_texture_quality",
                  args |-> [quality |-> quality, input_path |-> input_path],
                  ret |-> _validate_texture_quality(quality, input_path)]
    /\ UNCHANGED <<core, memory, heap, threads>>

NextNative ==
    \/ \E prefer_wasm \in BOOLEAN, gltfpack \in Binaries, env_native \in EnvValues,
          env_wasm \in EnvValues, wasm_available \in BOOLEAN :
          select_backend(NameA, prefer_wasm, gltfpack, env_native, env_wasm, wasm_available)
    \/ \E input_path \in NativePaths, output_path \in OutputPaths :
          resolve_output_path(input_path, output_path)
    \/ \E ratio \in NativeRatios : validate_simplify_ratio(ratio, NameA)
    \/ \E quality \in NativeQualities : validate_texture_quality(quality, NameA)

SpecNative == InitNative /\ [][NextNative]_vars

---------------------------------------------------------------------------
\* runtime.py: _upload_argv and the malloc and free of pack, on the bytes of
\* guest memory.  "e" stands for a character outside ASCII (U+00E9), which
\* str.encode("utf-8") turns into two bytes; "a" is one byte.
ArgvChars == {"a", "e"}
Utf8(c) == IF c = "e" THEN <<195, 169>> ELSE <<97>>
\* arg.encode("utf-8")
RECURSIVE Encode(_)
Encode(s) == IF s = <<>> THEN <<>> ELSE Utf8(Head(s)) \o Encode(Tail(s))

\* the loop of _upload_argv from argument i on, argp being the address of
\* the next string
RECURSIVE UploadArgs(_, _, _, _, _)
UploadArgs(mem, encoded_args, buf, argp, i) ==
    IF i > Len(encoded_args) THEN MemRet(mem, buf, "")
    ELSE LET arg == encoded_args[i]
             pointer == _set_u32(mem, buf + (i - 1) * 4,
                                 Word(argp \div (2 ^ 16), argp % (2 ^ 16)))
             copied == IF pointer.exc # "" THEN pointer
                       ELSE StoreBytes(pointer.mem, argp, arg, 1)
             ended == IF copied.exc # "" THEN copied
                      ELSE _set_u8(copied.mem, argp + Len(arg), 0)
         IN IF ended.exc # "" THEN MemRet(ended.mem, 0, ended.exc)
            ELSE UploadArgs(ended.mem, encoded_args, buf, argp + Len(arg) + 1, i + 1)

\* _upload_argv with the size of each string taken as its number of characters
_upload_argv_CharCount(mem, argv, buf) ==
    LET encoded_args == [i \in 1..Len(argv) |-> Encode(argv[i])]
        buf_size == Len(argv) * 4 + SumLens(argv) + Len(argv)
        r == UploadArgs(mem, encoded_args, buf, buf + Len(argv) * 4, 1)
    IN [mem |-> r.mem, val |-> r.val, size |-> buf_size, exc |-> r.exc]
\* GltfpackWasm._upload_argv: buf is the address the guest's malloc returns;
\* size is the number of bytes asked of malloc
_upload_argv(mem, argv, buf) ==
    LET encoded_args == [i \in 1..Len(argv) |-> Encode(argv[i])]
        buf_size == Len(argv) * 4 + SumLens(encoded_args) + Len(argv)
        r == UploadArgs(mem, encoded_args, buf, buf + Len(argv) * 4, 1)
    IN [mem |-> r.mem, val |-> r.val, size |-> buf_size, exc |-> r.exc]

ArgvLists == SeqsUpTo(SeqsUpTo(ArgvChars, MaxArgLen), MaxArgs)
\* the addresses malloc returns
ArgvBufs == {0, 1, 4, 8}
\* two blocks of guest memory that share no byte
Apart(b1, b2) == b1.buf + b1.size <= b2.buf \/ b2.buf + b2.size <= b1.buf

InitArgv ==
    /\ _gltfpack = TRUE
    /\ _instance = TRUE
    /\ _fds = NoFds
    /\ _fs_interface = FsNone
    /\ _output_buffer = <<>>
    /\ disk = EmptyDict
    /\ pc = "idle"
    /\ call = NoCall
    /\ result = NoResult
    /\ ncalls = 0
    /\ runs = 0
    /\ made = [engines |-> 1, instances |-> 1]
    /\ returned_fds = {}
    /\ guest = StubStart
    /\ memory = [i \in 1..ArgvMemSize |-> InvalidByte]
    /\ native = NoNative
    /\ heap = [at |-> "idle", argv |-> <<>>, buf |-> 0, size |-> 0,
               before |-> <<>>, live |-> {}, packs |-> 0, exc |-> ""]
    /\ threads = NoThreads

\* pack: buf = self._upload_argv(argv), the guest's malloc returning buf
upload_argv(argv, buf) ==
    /\ heap.at = "idle"
    /\ heap.packs < MaxPacks
    /\ LET r == _upload_argv(memory, argv, buf)
           block == [buf |-> buf, size |-> r.size]
       IN /\ \A b \in heap.live : Apart(b, block)
          /\ memory' = r.mem
          /\ heap' = [at |-> IF r.exc = "" THEN "guest" ELSE "idle",
                      argv |-> argv, buf |-> r.val, size |-> r.size,
                      before |-> memory, live |-> heap.live \cup {block},
                      packs |-> heap.packs + 1, exc |-> r.exc]
    /\ UNCHANGED <<core, native, threads>>

\* pack: pack_fn returns result_code and free_fn(self._store, buf) follows
pack_fn_return(result_code) ==
    /\ heap.at = "guest"
    /\ heap' = [heap EXCEPT !.at = "idle",
                            !.live = @ \ {[buf |-> heap.buf, size |-> heap.size]}]
    /\ UNCHANGED <<core, memory, native, threads>>

\* pack: pack_fn raises (a trap of the guest, or an exception of a host call)
pack_fn_raise ==
    /\ heap.at = "guest"
    /\ heap' = [heap EXCEPT !.at = "idle", !.exc = "Trap"]
    /\ UNCHANGED <<core, memory, native, threads>>

NextArgv ==
    \/ \E argv \in ArgvLists, buf \in ArgvBufs : upload_argv(argv, buf)
    \/ \E result_code \in ReturnCodes : pack_fn_return(result_code)
    \/ pack_fn_raise

SpecArgv == InitArgv /\ [][NextArgv]_vars

---------------------------------------------------------------------------
\* A copying guest: its pack opens the file named by -i and create-opens the
\* file named by -o (both relative names, resolved under the working-directory
\* preopen, fd 4), copies the input to the output chunk by chunk until fd_read
\* delivers nothing, closes both descriptors and returns 0.  It returns 1 if
\* a host call fails.
CopyFd == 4
Stepped(r, ok) == IF r.status = 0 THEN ok ELSE [guest EXCEPT !.at = "failed"]

copy_open_input ==
    /\ guest.at = "open_input"
    /\ LET r == wasi_path_open32(CopyFd, Some(call.input_path), 0, TRUE) IN
       /\ Host(r, TRUE)
       /\ guest' = Stepped(r, [guest EXCEPT !.at = "open_output", !.in_fd = r.val])

copy_open_output ==
    /\ guest.at = "open_output"
    /\ LET r == wasi_path_open32(CopyFd, Some(call.output_path), 1, TRUE) IN
       /\ Host(r, TRUE)
       /\ guest' = Stepped(r, [guest EXCEPT !.at = "read", !.out_fd = r.val])

copy_read ==
    /\ guest.at = "read"
    /\ LET r == wasi_fd_read(guest.in_fd, <<CopyChunk>>, TRUE) IN
       /\ Host(r, FALSE)
       /\ guest' = Stepped(r, IF r.val = 0
                              THEN [guest EXCEPT !.at = "close_output", !.buf = <<>>]
                              ELSE [guest EXCEPT !.at = "write", !.buf = r.bytes[1]])

copy_write ==
    /\ guest.at = "write"
    /\ LET r == wasi_fd_write(guest.out_fd, <<guest.buf>>, TRUE) IN
       /\ Host(r, FALSE)
       /\ guest' = Stepped(r, [guest EXCEPT !.at = "read", !.buf = <<>>])

copy_close_output ==
    /\ guest.at = "close_output"
    /\ LET r == wasi_fd_close(guest.out_fd) IN
       /\ Host(r, FALSE)
       /\ guest' = Stepped(r, [guest EXCEPT !.at = "close_input"])

copy_close_input ==
    /\ guest.at = "close_input"
    /\ LET r == wasi_fd_close(guest.in_fd) IN
       /\ Host(r, FALSE)
       /\ guest' = Stepped(r, [guest EXCEPT !.at = "return"])

copy_return ==
    /\ guest.at \in {"return", "failed"}
    /\ pack_return(IF guest.at = "return" THEN 0 ELSE 1, "none")
    /\ guest' = StubStart

InitCopy ==
    /\ _gltfpack = FALSE
    /\ _instance = FALSE
    /\ _fds = NoFds
    /\ _fs_interface = FsNone
    /\ _output_buffer = <<>>
    /\ disk \in {NameA :> content : content \in SeqsUpTo(Byte, MaxCopy)}
    /\ pc = "idle"
    /\ call = NoCall
    /\ result = NoResult
    /\ ncalls = 0
    /\ runs = 0
    /\ made = NoneMade
    /\ returned_fds = {}
    /\ guest = StubStart
    /\ memory = <<>>
    /\ native = NoNative
    /\ heap = NoHeap
    /\ threads = NoThreads

\* run_gltfpack_wasm(name, mesh_compress=True), every other parameter at its
\* default, in an environment without faults, with the copying guest
NextCopy ==
    \/ \E input_path \in {NameA, NameAPacked} :
          /\ input_path \in DOMAIN disk
          /\ run_gltfpack_wasm(input_path, None, TRUE, TRUE, None, None, TRUE, TRUE)
          /\ UNCHANGED guest
    \/ \E has_ctors \in BOOLEAN : _execute(TRUE, "", has_ctors, "") /\ UNCHANGED guest
    \/ ctors_return("") /\ UNCHANGED guest
    \/ pc = "guest" /\ copy_open_input
    \/ pc = "guest" /\ copy_open_output
    \/ pc = "guest" /\ copy_read
    \/ pc = "guest" /\ copy_write
    \/ pc = "guest" /\ copy_close_output
    \/ pc = "guest" /\ copy_close_input
    \/ copy_return

SpecCopy == InitCopy /\ [][NextCopy]_vars

---------------------------------------------------------------------------
\* A round-trip guest: it create-opens a name through a mount point, writes
\* bytes with any number of fd_write calls and iovecs, closes the descriptor,
\* opens the same name through the same mount point without the create flag
\* and reads, with buffers that are not all empty, until fd_read delivers
\* nothing.  written is what it wrote, got what it read back.
RoundStart ==
    [at |-> "create", mount |-> 0, name |-> <<>>, fd |-> 0, writes |-> 0,
     written |-> <<>>, got |-> <<>>]
RoundStepped(r, ok) == IF r.status = 0 THEN ok ELSE [guest EXCEPT !.at = "failed"]
\* the bytes of a sequence of byte strings, in order
RECURSIVE Concat(_)
Concat(chunks) == IF chunks = <<>> THEN <<>> ELSE Head(chunks) \o Concat(Tail(chunks))

round_create(mount, name) ==
    /\ guest.at = "create"
    /\ LET r == wasi_path_open32(mount, Some(name), 1, TRUE) IN
       /\ Host(r, TRUE)
       /\ guest' = RoundStepped(r, [guest EXCEPT !.at = "write", !.mount = mount,
                                                 !.name = name, !.fd = r.val])

round_write(iovs) ==
    /\ guest.at = "write"
    /\ guest.writes < MaxWrites
    /\ Len(guest.written) + SumLens(iovs) <= MaxRound
    /\ LET r == wasi_fd_write(guest.fd, iovs, TRUE) IN
       /\ Host(r, FALSE)
       /\ guest' = RoundStepped(r, [guest EXCEPT !.writes = @ + 1,
                                                 !.written = @ \o Concat(iovs)])

round_close ==
    /\ guest.at = "write"
    /\ LET r == wasi_fd_close(guest.fd) IN
       /\ Host(r, FALSE)
       /\ guest' = RoundStepped(r, [guest EXCEPT !.at = "reopen"])

round_reopen ==
    /\ guest.at = "reopen"
    /\ LET r == wasi_path_open32(guest.mount, Some(guest.name), 0, TRUE) IN
       /\ Host(r, TRUE)
       /\ guest' = RoundStepped(r, [guest EXCEPT !.at = "read", !.fd = r.val])

round_read(buf_lens) ==
    /\ guest.at = "read"
    /\ SumLens([i \in 1..Len(buf_lens) |-> Zeros(buf_lens[i])]) > 0
    /\ LET r == wasi_fd_read(guest.fd, buf_lens, TRUE) IN
       /\ Host(r, FALSE)
       /\ guest' = RoundStepped(r, IF r.val = 0
                                   THEN [guest EXCEPT !.at = "done"]
                                   ELSE [guest EXCEPT !.got = @ \o Concat(r.bytes)])

\* one guest run, entered by pack with a.glb as input
InitRound ==
    /\ _gltfpack = TRUE
    /\ _instance = TRUE
    /\ _fds = InitFds
    /\ _output_buffer = <<>>
    /\ disk \in {NameA :> content : content \in InputContents}
    /\ _fs_interface = SeedFs(NameA, disk[NameA])
    /\ pc = "guest"
    /\ call = [input_path |-> NameA, output_path |-> NameAPacked,
               input_data |-> disk[NameA],
               mesh_compress |-> FALSE, simplify_ratio |-> None,
               args |-> <<>>,
               argv |-> pack_argv(NameA, NameAPacked, <<>>),
               prev_dirty |-> FALSE]
    /\ result = NoResult
    /\ ncalls = 0
    /\ runs = 0
    /\ made = [engines |-> 1, instances |-> 1]
    /\ returned_fds = {}
    /\ guest = RoundStart
    /\ memory = <<>>
    /\ native = NoNative
    /\ heap = NoHeap
    /\ threads = NoThreads

NextRound ==
    \/ \E mount \in {3, 4}, name \in {NameA, NameAPacked} : round_create(mount, name)
    \/ \E iovs \in Iovs : round_write(iovs)
    \/ round_close
    \/ round_reopen
    \/ \E buf_lens \in BufLens : round_read(buf_lens)

SpecRound == InitRound /\ [][NextRound]_vars

---------------------------------------------------------------------------
\* Two callers of pack on the one GltfpackWasm get_gltfpack hands out.  Each
\* runs the statements of pack in order; between two statements, and between
\* two host calls of its guest code, the other caller may run.  The guest is
\* the copying guest, which first writes one byte to stdout.  With
\* threads.serial the callers take a lock around pack, so that a pack starts
\* only when no other is under way.
Tids == {1, 2}
RaceInput(t) == IF t = 1 THEN NameA ELSE NameM
RaceOutput(t) == IF t = 1 THEN NameAPacked ELSE NameO
RaceData(t) == <<t>>
RaceMark(t) == <<t>>
NoRet == [success |-> FALSE, output_data |-> <<>>, log |-> <<>>]
RaceStart == [at |-> "start", in_fd |-> 0, out_fd |-> 0, buf |-> <<>>, ret |-> NoRet]
raceframe == <<_gltfpack, _instance, disk, pc, call, result, ncalls, runs, made,
               returned_fds, guest, memory, native, heap>>
\* a host call of caller t's guest: ok is what the guest goes on with
RaceHost(t, r, ok) ==
    /\ _fds' = r.fds
    /\ _fs_interface' = r.fs
    /\ _output_buffer' = r.out
    /\ threads' = [threads EXCEPT !.t[t] =
                       IF r.status = 0 THEN ok ELSE [threads.t[t] EXCEPT !.at = "failed"]]
    /\ UNCHANGED raceframe

\* a reset that keeps the log bytes already captured
race_reset_KeepLog(t) ==
    /\ threads.t[t].at = "start"
    /\ threads.serial => \A u \in Tids : threads.t[u].at \in {"start", "done"}
    /\ _fds' = InitFds
    /\ threads' = [threads EXCEPT !.t[t].at = "seed"]
    /\ UNCHANGED <<_fs_interface, _output_buffer, raceframe>>

\* pack: self._init_fds()
race_reset(t) ==
    /\ threads.t[t].at = "start"
    /\ threads.serial => \A u \in Tids : threads.t[u].at \in {"start", "done"}
    /\ _fds' = InitFds
    /\ _output_buffer' = <<>>
    /\ threads' = [threads EXCEPT !.t[t].at = "seed"]
    /\ UNCHANGED <<_fs_interface, raceframe>>

\* pack: self._fs_interface = {input_name: input_data}
race_seed(t) ==
    /\ threads.t[t].at = "seed"
    /\ _fs_interface' = SeedFs(RaceInput(t), RaceData(t))
    /\ threads' = [threads EXCEPT !.t[t].at = "log"]
    /\ UNCHANGED <<_fds, _output_buffer, raceframe>>

race_log(t) ==
    /\ threads.t[t].at = "log"
    /\ RaceHost(t, wasi_fd_write(1, <<RaceMark(t)>>, TRUE),
                [threads.t[t] EXCEPT !.at = "open_input"])

race_open_input(t) ==
    /\ threads.t[t].at = "open_input"
    /\ LET r == wasi_path_open32(CopyFd, Some(RaceInput(t)), 0, TRUE) IN
       RaceHost(t, r, [threads.t[t] EXCEPT !.at = "open_output", !.in_fd = r.val])

race_open_output(t) ==
    /\ threads.t[t].at = "open_output"
    /\ LET r == wasi_path_open32(CopyFd, Some(RaceOutput(t)), 1, TRUE) IN
       RaceHost(t, r, [threads.t[t] EXCEPT !.at = "read", !.out_fd = r.val])

race_read(t) ==
    /\ threads.t[t].at = "read"
    /\ LET r == wasi_fd_read(threads.t[t].in_fd, <<CopyChunk>>, TRUE) IN
       RaceHost(t, r, IF r.val = 0
                      THEN [threads.t[t] EXCEPT !.at = "close_output", !.buf = <<>>]
                      ELSE [threads.t[t] EXCEPT !.at = "write", !.buf = r.bytes[1]])

race_write(t) ==
    /\ threads.t[t].at = "write"
    /\ RaceHost(t, wasi_fd_write(threads.t[t].out_fd, <<threads.t[t].buf>>, TRUE),
                [threads.t[t] EXCEPT !.at = "read", !.buf = <<>>])

race_close_output(t) ==
    /\ threads.t[t].at = "close_output"
    /\ RaceHost(t, wasi_fd_close(threads.t[t].out_fd),
                [threads.t[t] EXCEPT !.at = "close_input"])

race_close_input(t) ==
    /\ threads.t[t].at = "close_input"
    /\ RaceHost(t, wasi_fd_close(threads.t[t].in_fd),
                [threads.t[t] EXCEPT !.at = "return"])

\* the guest's pack returns and pack builds its result
race_return(t) ==
    /\ threads.t[t].at \in {"return", "failed"}
    /\ threads' = [threads EXCEPT
                      !.t[t].at = "done",
                      !.t[t].ret = pack_result(IF threads.t[t].at = "return" THEN 0 ELSE 1,
                                               _output_buffer, _fs_interface,
                                               RaceOutput(t))]
    /\ UNCHANGED <<_fds, _fs_interface, _output_buffer, raceframe>>

InitRace ==
    /\ _gltfpack = TRUE
    /\ _instance = TRUE
    /\ _fds = NoFds
    /\ _fs_interface = FsNone
    /\ _output_buffer = <<>>
    /\ disk = EmptyDict
    /\ pc = "idle"
    /\ call = NoCall
    /\ result = NoResult
    /\ ncalls = 0
    /\ runs = 0
    /\ made = [engines |-> 1, instances |-> 1]
    /\ returned_fds = {}
    /\ guest = StubStart
    /\ memory = <<>>
    /\ native = NoNative
    /\ heap = NoHeap
    /\ threads \in {[serial |-> b, t |-> [u \in Tids |-> RaceStart]] : b \in BOOLEAN}

NextRace ==
    \/ \E t \in Tids : race_reset(t)
    \/ \E t \in Tids : race_seed(t)
    \/ \E t \in Tids : race_log(t)
    \/ \E t \in Tids : race_open_input(t)
    \/ \E t \in Tids : race_open_output(t)
    \/ \E t \in Tids : race_read(t)
    \/ \E t \in Tids : race_write(t)
    \/ \E t \in Tids : race_close_output(t)
    \/ \E t \in Tids : race_close_input(t)
    \/ \E t \in Tids : race_return(t)

SpecRace == InitRace /\ [][NextRace]_vars

---------------------------------------------------------------------------
\* Properties.

\* the kinds of descriptor, read off what _init_fds and path_open put in an entry
IsStdOutput(fds, fd) == fd \in DOMAIN fds /\ "type" \in DOMAIN fds[fd]
IsMountPoint(fds, fd) == fd \in DOMAIN fds /\ "mount" \in DOMAIN fds[fd]
IsCreated(fds, fd) == fd \in DOMAIN fds /\ "close_data" \in DOMAIN fds[fd]
\* the names a guest passes that decode to a string
ValidPaths == {path[1] : path \in GuestPaths \ {None}}
\* the step in which pack hands control to the guest's entry point
PackEntry == pc # "guest" /\ pc' = "guest"

\* C1: run_gltfpack_wasm never raises: whatever fails inside the invocation,
\* it returns a (False, path, message) tuple and no exception reaches its
\* caller.
C1_NeverRaises == result.kind # "raised"

\* C2: with the copying guest, run_gltfpack_wasm('a.glb', mesh_compress=True)
\* returns (True, 'a_packed.glb', 'Success') and the file a_packed.glb then
\* holds exactly the bytes a.glb had, which a.glb keeps, for every input.
C2_EndToEndCopy ==
    [][(copy_return /\ call.input_path = NameA) =>
          /\ result'.kind = "returned"
          /\ result'.success
          /\ result'.path = NameAPacked
          /\ result'.message = Msg("Success", <<>>)
          /\ NameAPacked \in DOMAIN disk'
          /\ disk'[NameAPacked] = disk[NameA]
          /\ disk'[NameA] = disk[NameA]]_vars
\* a copy of a file longer than the buffer a create-opened file starts with
C2_Witness ==
    /\ pc = "idle"
    /\ result.kind = "returned" /\ result.success
    /\ NameAPacked \in DOMAIN disk
    /\ Len(disk[NameA]) > InitialCapacity
    /\ disk[NameAPacked] = disk[NameA]

\* C3 as stated: when pack returns, the fd table holds exactly the four
\* baseline ids and the log buffer is empty, whatever the guest did.
C3_BaselineAfterReturn ==
    [][\A result_code \in ReturnCodes, write_fault \in WriteFaults :
          pack_return(result_code, write_fault) =>
              (DOMAIN _fds' = {1, 2, 3, 4} /\ _output_buffer' = <<>>)]_vars
\* C3 amended: whenever pack hands control to the guest's entry point, the
\* fd table holds exactly the ids 1..4 and the log buffer is empty, whatever
\* descriptors and log bytes the previous call on the same engine left.
C3_BaselineAtEntry ==
    [][PackEntry => (DOMAIN _fds' = {1, 2, 3, 4} /\ _output_buffer' = <<>>)]_vars
\* a second guest run starts clean although the first left something behind
C3_Witness ==
    /\ pc = "guest" /\ ncalls = 0 /\ runs >= 2
    /\ call.prev_dirty
    /\ DOMAIN _fds = {1, 2, 3, 4} /\ _output_buffer = <<>>

\* C4: before the guest's entry point runs, pack has reset the fd table to
\* exactly the ids 1..4 (1 and 2 standard outputs, 3 and 4 mount points),
\* emptied the log buffer and seeded the virtual filesystem with exactly the
\* input name mapped to the input bytes, from whatever state the engine was in.
C4_ResetAndSeed ==
    [][PackEntry =>
          /\ DOMAIN _fds' = {1, 2, 3, 4}
          /\ \A fd \in {1, 2} : IsStdOutput(_fds', fd) /\ ~IsMountPoint(_fds', fd)
          /\ \A fd \in {3, 4} : IsMountPoint(_fds', fd) /\ ~IsStdOutput(_fds', fd)
          /\ _output_buffer' = <<>>
          /\ ~_fs_interface'.none
          /\ DOMAIN _fs_interface'.files = {call'.input_path}
          /\ _fs_interface'.files[call'.input_path] = disk[call'.input_path]]_vars
\* a guest run on another input than the one the engine was seeded with before
C4_Witness ==
    /\ pc = "guest" /\ ncalls = 0 /\ runs >= 2
    /\ call.input_path = NameAPacked
    /\ DOMAIN _fs_interface.files = {NameAPacked}

\* C5 as stated: path_open never returns an fd value it has returned before
\* in the same invocation, not even after that descriptor was closed.
C5_NeverReturnedTwice ==
    [][\A parent_fd \in FdArgs, path \in GuestPaths, oflags \in Oflags :
          (/\ path_open32(parent_fd, path, oflags, TRUE)
           /\ wasi_path_open32(parent_fd, path, oflags, TRUE).status = 0)
          => wasi_path_open32(parent_fd, path, oflags, TRUE).val \notin returned_fds]_vars
\* C5 amended: whenever the guest can call it, a path_open that succeeds
\* returns an fd value of at least 5 that no entry of the fd table has at
\* that moment and leaves the entries already there as they are, so the
\* descriptors open at the same time always have distinct values.
C5_UniqueAmongOpen ==
    \A parent_fd \in FdArgs, path \in GuestPaths, oflags \in Oflags :
        LET r == wasi_path_open32(parent_fd, path, oflags, TRUE) IN
        (pc = "guest" /\ r.status = 0) =>
            /\ r.val >= 5
            /\ r.val \notin DOMAIN _fds
            /\ DOMAIN r.fds = DOMAIN _fds \cup {r.val}
            /\ \A fd \in DOMAIN _fds : r.fds[fd] = _fds[fd]
\* two descriptors open at once, on different files
C5_Witness ==
    /\ returned_fds = {5, 6}
    /\ {5, 6} \subseteq DOMAIN _fds
    /\ _fds[5]["name"] # _fds[6]["name"]

C7_FsChangesOnlyAtClose ==
    [][_fs_interface' # _fs_interface =>
          \E fd \in FdArgs : IsCreated(_fds, fd) /\ fd_close(fd)]_vars
\* bytes written through a descriptor opened without create, map untouched
C7_Witness ==
    \E fd \in DOMAIN _fds :
        /\ "name" \in DOMAIN _fds[fd]
        /\ ~IsCreated(_fds, fd)
        /\ _fds[fd]["name"] \in DOMAIN _fs_interface.files
        /\ _fds[fd]["size"] > Len(_fs_interface.files[_fds[fd]["name"]])
        /\ _fs_interface.files = (NameA :> disk[NameA])

\* C8: fd_close, fd_fdstat_get, fd_seek, fd_read and fd_write return EBADF
\* exactly when the fd is not in the fd table; path_open, path_filestat_get,
\* fd_prestat_get and fd_prestat_dir_name return EBADF exactly when the fd is
\* not a mount point, at every point where the guest can make a host call.
C8_Ebadf ==
    pc = "guest" => \A fd \in FdArgs :
        /\ (wasi_fd_close(fd).status = WASI_EBADF) <=> (fd \notin DOMAIN _fds)
        /\ (wasi_fd_fdstat_get(fd, TRUE).status = WASI_EBADF) <=> (fd \notin DOMAIN _fds)
        /\ \A offset \in Offsets, whence \in Whences :
              (wasi_fd_seek32(fd, offset, whence, TRUE).status = WASI_EBADF)
                  <=> (fd \notin DOMAIN _fds)
        /\ \A buf_lens \in BufLens :
              (wasi_fd_read(fd, buf_lens, TRUE).status = WASI_EBADF)
                  <=> (fd \notin DOMAIN _fds)
        /\ \A iovs \in Iovs :
              (wasi_fd_write(fd, iovs, TRUE).status = WASI_EBADF)
                  <=> (fd \notin DOMAIN _fds)
        /\ \A path \in GuestPaths, oflags \in Oflags :
              (wasi_path_open32(fd, path, oflags, TRUE).status = WASI_EBADF)
                  <=> ~IsMountPoint(_fds, fd)
        /\ \A path \in GuestPaths :
              (wasi_path_filestat_get(fd, path, TRUE).status = WASI_EBADF)
                  <=> ~IsMountPoint(_fds, fd)
        /\ (wasi_fd_prestat_get(fd, TRUE).status = WASI_EBADF) <=> ~IsMountPoint(_fds, fd)
        /\ \A path_len \in 0..Len(MountPwd) :
              (wasi_fd_prestat_dir_name(fd, path_len, TRUE).status = WASI_EBADF)
                  <=> ~IsMountPoint(_fds, fd)
\* a descriptor already closed is refused by fd_close, and an open regular
\* file is refused as a mount point
C8_Witness ==
    /\ \E fd \in returned_fds :
          fd \notin DOMAIN _fds /\ wasi_fd_close(fd).status = WASI_EBADF
    /\ \E fd \in DOMAIN _fds :
          fd >= 5 /\ wasi_fd_prestat_get(fd, TRUE).status = WASI_EBADF

\* C9: path_open without the create flag on a mount point returns EIO
\* exactly when mount.path + relative path is no key of the virtual
\* filesystem; otherwise it returns 0 and the new descriptor has position 0,
\* the length of the stored bytes as size and those bytes as content.
C9_OpenExisting ==
    \A parent_fd \in FdArgs, relative \in ValidPaths :
        (pc = "guest" /\ IsMountPoint(_fds, parent_fd)) =>
            LET r == wasi_path_open32(parent_fd, Some(relative), 0, TRUE)
                full == _fds[parent_fd]["path"] \o relative
                files == _fs_interface.files
            IN /\ (r.status = WASI_EIO) <=> (full \notin DOMAIN files)
               /\ full \in DOMAIN files =>
                     /\ r.status = 0
                     /\ r.val \in DOMAIN r.fds
                     /\ r.fds[r.val]["position"] = 0
                     /\ r.fds[r.val]["size"] = Len(files[full])
                     /\ r.fds[r.val]["data"] = files[full]
\* the input file, not empty, opened without create and not yet read
C9_Witness ==
    \E fd \in DOMAIN _fds :
        /\ fd >= 5 /\ ~IsCreated(_fds, fd)
        /\ _fds[fd]["name"] = NameA
        /\ _fds[fd]["position"] = 0
        /\ _fds[fd]["size"] >= 1
        /\ _fds[fd]["data"] = _fs_interface.files[NameA]

\* C10: fd_seek returns EINVAL whenever the resulting position would be
\* negative or beyond the declared size, for whence 0, 1 and 2 and every
\* signed offset, and then leaves the descriptor's position as it was.
C10_SeekRefusesOutOfRange ==
    [][\A fd \in FdArgs, offset \in Offsets, whence \in {0, 1, 2} :
          (/\ fd \in DOMAIN _fds
           /\ fd_seek32(fd, offset, whence, TRUE)
           /\ LET position == Get(_fds[fd], "position", 0)
                  size == Get(_fds[fd], "size", 0)
                  target == CASE whence = 0 -> offset
                              [] whence = 1 -> position + offset
                              [] whence = 2 -> size + offset
              IN target < 0 \/ target > size)
          => /\ wasi_fd_seek32(fd, offset, whence, TRUE).status = WASI_EINVAL
             /\ _fds' = _fds]_vars

\* C11: a seek whose target lies in the file succeeds, sets the position to
\* offset (whence 0), position + offset (whence 1) or size + offset
\* (whence 2), and stores that position through newoffset.
C11_SeekTarget ==
    pc = "guest" =>
        \A fd \in DOMAIN _fds, offset \in Offsets, whence \in {0, 1, 2} :
            LET position == Get(_fds[fd], "position", 0)
                size == Get(_fds[fd], "size", 0)
                target == CASE whence = 0 -> offset
                            [] whence = 1 -> position + offset
                            [] whence = 2 -> size + offset
                r == wasi_fd_seek32(fd, offset, whence, TRUE)
            IN (0 <= target /\ target <= size) =>
                  /\ r.status = 0
                  /\ r.fds[fd]["position"] = target
                  /\ r.val = target

\* a regular file: an entry path_open made
IsRegularFile(fds, fd) == fd \in DOMAIN fds /\ "name" \in DOMAIN fds[fd]
\* the bytes of a sequence of chunks, in order
RECURSIVE Flatten(_)
Flatten(chunks) == IF chunks = <<>> THEN <<>> ELSE Head(chunks) \o Flatten(Tail(chunks))
RECURSIVE SumOf(_)
SumOf(lens) == IF lens = <<>> THEN 0 ELSE Head(lens) + SumOf(Tail(lens))

\* C12: fd_read on a regular file delivers, iovec after iovec, the bytes
\* data[position, position + n) with n = min(sum of the iovec lengths,
\* size - position), advances the position by n, reports n, and changes
\* neither the file's size and contents nor anything else; at end of file it
\* returns 0 with n = 0 and changes nothing.
C12_ReadDelivers ==
    pc = "guest" =>
        \A fd \in DOMAIN _fds, buf_lens \in BufLens :
            IsRegularFile(_fds, fd) =>
                LET info == _fds[fd]
                    n == IF SumOf(buf_lens) < info["size"] - info["position"]
                         THEN SumOf(buf_lens) ELSE info["size"] - info["position"]
                    r == wasi_fd_read(fd, buf_lens, TRUE)
                IN /\ 0 <= info["position"] /\ info["position"] <= info["size"]
                   /\ r.status = 0
                   /\ r.val = n
                   /\ Len(r.bytes) = Len(buf_lens)
                   /\ \A i \in 1..Len(buf_lens) : Len(r.bytes[i]) <= buf_lens[i]
                   /\ Flatten(r.bytes) = [i \in 1..n |-> info["data"][info["position"] + i]]
                   /\ r.fds = [_fds EXCEPT ![fd] = [info EXCEPT !["position"] = info["position"] + n]]
                   /\ r.fs = _fs_interface
                   /\ r.out = _output_buffer
                   /\ n = 0 => r.fds = _fds
\* a file read up to its middle, and one at its end
C12_Witness ==
    /\ pc = "guest"
    /\ \E fd \in DOMAIN _fds :
          /\ IsRegularFile(_fds, fd)
          /\ 0 < _fds[fd]["position"] /\ _fds[fd]["position"] < _fds[fd]["size"]
          /\ wasi_fd_read(fd, <<1, 1>>, TRUE).val = 1
    /\ \E fd \in DOMAIN _fds :
          /\ IsRegularFile(_fds, fd)
          /\ _fds[fd]["position"] = _fds[fd]["size"]
          /\ wasi_fd_read(fd, <<1>>, TRUE).val = 0

\* what an fd_write of the iovecs iovs at the cursor of a regular file must
\* leave in its entry, the capacity apart; new is the entry afterwards
WrittenAsClaimed(old, new, iovs) ==
    LET p == old["position"]
        bytes == Flatten(iovs)
        n == Len(bytes)
    IN /\ new["position"] = p + n
       /\ new["size"] = (IF old["size"] > p + n THEN old["size"] ELSE p + n)
       /\ Len(new["data"]) >= new["size"]
       /\ \A i \in 1..new["size"] :
             new["data"][i] = IF p < i /\ i <= p + n THEN bytes[i - p]
                              ELSE old["data"][i]
       /\ DOMAIN new = DOMAIN old
       /\ new["name"] = old["name"]
\* the capacity after growing iovec by iovec: an iovec of k bytes at cursor q
\* that does not fit makes the capacity max(2 * capacity, q + k)
RECURSIVE CapacityAfter(_, _, _)
CapacityAfter(capacity, q, iovs) ==
    IF iovs = <<>> THEN capacity
    ELSE LET k == Len(Head(iovs))
             grown == IF q + k > capacity
                      THEN (IF 2 * capacity > q + k THEN 2 * capacity ELSE q + k)
                      ELSE capacity
         IN CapacityAfter(grown, q + k, Tail(iovs))

\* C13 as stated: fd_write of n bytes in all at cursor p of a regular file
\* stores them at [p, p + n), sets position and size, reports n, keeps the
\* other bytes, and when the buffer has to grow its new capacity is
\* max(2 * old capacity, p + n).
C13_WriteGrowsOnce ==
    pc = "guest" =>
        \A fd \in DOMAIN _fds, iovs \in Iovs :
            IsRegularFile(_fds, fd) =>
                LET old == _fds[fd]
                    r == wasi_fd_write(fd, iovs, TRUE)
                    n == Len(Flatten(iovs))
                    capacity == Len(old["data"])
                IN /\ r.status = 0 /\ r.val = n
                   /\ WrittenAsClaimed(old, r.fds[fd], iovs)
                   /\ Len(r.fds[fd]["data"]) =
                         IF old["position"] + n > capacity
                         THEN (IF 2 * capacity > old["position"] + n
                               THEN 2 * capacity ELSE old["position"] + n)
                         ELSE capacity
\* C13 amended: the same, except that the buffer grows iovec by iovec, each
\* iovec that does not fit at its cursor q making the capacity
\* max(2 * capacity, q + its length); nothing but the written entry changes.
C13_WriteStores ==
    pc = "guest" =>
        \A fd \in DOMAIN _fds, iovs \in Iovs :
            IsRegularFile(_fds, fd) =>
                LET old == _fds[fd]
                    r == wasi_fd_write(fd, iovs, TRUE)
                IN /\ r.status = 0 /\ r.val = Len(Flatten(iovs))
                   /\ WrittenAsClaimed(old, r.fds[fd], iovs)
                   /\ Len(r.fds[fd]["data"]) =
                         CapacityAfter(Len(old["data"]), old["position"], iovs)
                   /\ DOMAIN r.fds = DOMAIN _fds
                   /\ \A other \in DOMAIN _fds \ {fd} : r.fds[other] = _fds[other]
                   /\ r.fs = _fs_interface /\ r.out = _output_buffer
\* a file whose buffer has grown under a write, and one overwritten at its
\* start with its later byte kept
C13_Witness ==
    /\ pc = "guest"
    /\ \E fd \in DOMAIN _fds :
          /\ IsRegularFile(_fds, fd) /\ ~IsCreated(_fds, fd)
          /\ Len(_fds[fd]["data"]) > Len(_fs_interface.files[_fds[fd]["name"]])
    /\ \E fd \in DOMAIN _fds, iovs \in Iovs :
          /\ IsRegularFile(_fds, fd)
          /\ _fds[fd]["position"] = 0 /\ _fds[fd]["size"] = 2 /\ Len(Flatten(iovs)) = 1
          /\ wasi_fd_write(fd, iovs, TRUE).fds[fd]["size"] = 2

\* no host call the guest can make in the current state, an fd_write to fd 1
\* or 2 apart, leaves a log buffer other than the current one
OtherCallsKeepLog ==
    /\ \A rval \in ReturnCodes : wasi_proc_exit(rval).out = _output_buffer
    /\ \A fd \in FdArgs :
          /\ wasi_fd_close(fd).out = _output_buffer
          /\ wasi_fd_fdstat_get(fd, TRUE).out = _output_buffer
          /\ wasi_fd_prestat_get(fd, TRUE).out = _output_buffer
          /\ wasi_path_remove_directory(fd).out = _output_buffer
          /\ wasi_fd_fdstat_set_flags(fd, 0).out = _output_buffer
          /\ \A path_len \in 0..1 :
                wasi_fd_prestat_dir_name(fd, path_len, TRUE).out = _output_buffer
          /\ \A path \in GuestPaths :
                /\ wasi_path_filestat_get(fd, path, TRUE).out = _output_buffer
                /\ \A oflags \in Oflags :
                      wasi_path_open32(fd, path, oflags, TRUE).out = _output_buffer
          /\ \A offset \in Offsets, whence \in Whences :
                wasi_fd_seek32(fd, offset, whence, TRUE).out = _output_buffer
          /\ \A buf_lens \in BufLens :
                wasi_fd_read(fd, buf_lens, TRUE).out = _output_buffer
    /\ \A fd \in FdArgs \ {1, 2}, iovs \in Iovs :
          wasi_fd_write(fd, iovs, TRUE).out = _output_buffer

\* C14: an fd_write to fd 1 or fd 2 appends its bytes, iovec after iovec, to
\* the one log buffer and changes no entry of the descriptor table and no
\* file; no other host call changes the log buffer; and pack returns as its
\* log the buffer decoded as UTF-8, each byte that is no valid sequence
\* replaced by U+FFFD.
C14_LogBuffer ==
    pc = "guest" =>
        /\ \A fd \in {1, 2}, iovs \in Iovs :
              LET r == wasi_fd_write(fd, iovs, TRUE)
              IN /\ fd \in DOMAIN _fds => IsStdOutput(_fds, fd)
                 /\ IF fd \in DOMAIN _fds
                    THEN /\ r.status = 0 /\ r.val = Len(Flatten(iovs))
                         /\ r.out = _output_buffer \o Flatten(iovs)
                    ELSE /\ r.status = WASI_EBADF
                         /\ r.out = _output_buffer
                 /\ r.fds = _fds
                 /\ r.fs = _fs_interface
        /\ OtherCallsKeepLog
        /\ \A result_code \in ReturnCodes :
              LET log == pack_result(result_code, _output_buffer, _fs_interface, NameO).log
              IN /\ Len(log) = Len(_output_buffer)
                 /\ \A i \in 1..Len(log) :
                       log[i] = IF _output_buffer[i] = InvalidByte THEN 65533
                                ELSE _output_buffer[i]
\* both kinds of byte logged, the invalid one first, while a file is open
C14_Witness ==
    /\ pc = "guest"
    /\ \E fd \in DOMAIN _fds : IsRegularFile(_fds, fd)
    /\ Len(_output_buffer) = 2
    /\ _output_buffer[1] = InvalidByte
    /\ _output_buffer[2] # InvalidByte
    /\ wasi_fd_write(2, <<<<1>>, <<InvalidByte>>>>, TRUE).out
          = <<InvalidByte, 1, 1, InvalidByte>>

\* C15: proc_exit(code) does not return to the guest: it raises WasiExit
\* carrying the exit code, which ends the guest run.
C15_ProcExitRaises ==
    pc = "guest" =>
        \A rval \in ReturnCodes :
            LET r == wasi_proc_exit(rval)
            IN r.exc = "WasiExit" /\ r.val = rval

\* C16: a proc_exit of the guest during pack ends the run with pack and
\* run_gltfpack_wasm returning their tuples; no fault reaches their callers.
C16_ProcExitReturns ==
    [][\A rval \in ReturnCodes :
          proc_exit(rval) => (pc' = "idle" /\ result'.kind = "returned")]_vars

\* C17 as stated: for every return code of the guest, pack returns
\* (return code = 0, the file the virtual filesystem holds under the output
\* name or else empty bytes, log).
C17_OutputForEveryCode ==
    pc = "guest" =>
        \A result_code \in ReturnCodes :
            LET r == pack_result(result_code, _output_buffer, _fs_interface, call.output_path)
            IN /\ r.success = (result_code = 0)
               /\ r.output_data = Get(_fs_interface.files, call.output_path, <<>>)
               /\ r.log = DecodeReplace(_output_buffer)
\* C17 amended: on return code 0 pack returns (True, the file under the
\* output name or else empty bytes, log), so with no such file (True, empty
\* bytes, log); on any other return code it returns (False, empty bytes,
\* log), whatever the virtual filesystem holds.
C17_OutputOnSuccessOnly ==
    pc = "guest" =>
        \A result_code \in ReturnCodes :
            LET r == pack_result(result_code, _output_buffer, _fs_interface, call.output_path)
                held == call.output_path \in DOMAIN _fs_interface.files
            IN /\ r.success = (result_code = 0)
               /\ r.log = DecodeReplace(_output_buffer)
               /\ result_code # 0 => r.output_data = <<>>
               /\ result_code = 0 /\ held =>
                     r.output_data = _fs_interface.files[call.output_path]
               /\ result_code = 0 /\ ~held => r.output_data = <<>>
\* the guest has written and closed a non-empty output file
C17_Witness ==
    /\ pc = "guest"
    /\ call.output_path \in DOMAIN _fs_interface.files
    /\ _fs_interface.files[call.output_path] # <<>>
    /\ pack_result(1, _output_buffer, _fs_interface, call.output_path).output_data = <<>>
    /\ pack_result(0, _output_buffer, _fs_interface, call.output_path).output_data # <<>>

C20_StdOutputIsCharDevice ==
    pc = "guest" =>
        \A fd \in {1, 2} :
            IsStdOutput(_fds, fd) =>
                LET r == wasi_fd_fdstat_get(fd, TRUE)
                IN r.status = 0 /\ r.val = 2

\* C21: for each mount point fd, fd_prestat_get reports the length of its
\* mount string, and fd_prestat_dir_name returns 0 and writes that string
\* exactly when the requested length equals it, and EINVAL with nothing
\* written otherwise; on the table of a reset, fd_prestat_get on 3, 4, 5
\* yields the two mounts "/" and "/gltfpack-$pwd" and then EBADF.
C21_PreopenHandshake ==
    pc = "guest" =>
        /\ \A fd \in FdArgs :
              IsMountPoint(_fds, fd) =>
                  LET mount == _fds[fd]["mount"]
                      got == wasi_fd_prestat_get(fd, TRUE)
                  IN /\ got.status = 0 /\ got.val = Len(mount)
                     /\ got.fds = _fds
                     /\ \A path_len \in 0..(Len(MountPwd) + 1) :
                           LET r == wasi_fd_prestat_dir_name(fd, path_len, TRUE)
                           IN /\ r.fds = _fds /\ r.exc = ""
                              /\ IF path_len = got.val
                                 THEN r.status = 0 /\ r.bytes = mount
                                 ELSE r.status = WASI_EINVAL /\ r.bytes = <<>>
        /\ _fds = InitFds =>
              /\ wasi_fd_prestat_get(3, TRUE).status = 0
              /\ wasi_fd_prestat_dir_name(3, wasi_fd_prestat_get(3, TRUE).val, TRUE).bytes
                    = MountRoot
              /\ wasi_fd_prestat_get(4, TRUE).status = 0
              /\ wasi_fd_prestat_dir_name(4, wasi_fd_prestat_get(4, TRUE).val, TRUE).bytes
                    = MountPwd
              /\ wasi_fd_prestat_get(5, TRUE).status = WASI_EBADF
\* the guest has made three calls that left the table as the reset made it,
\* as the handshake calls do
C21_Witness ==
    /\ pc = "guest" /\ ncalls = 3 /\ _fds = InitFds
    /\ wasi_fd_prestat_get(4, TRUE).val = Len(MountPwd)
    /\ wasi_fd_prestat_dir_name(4, Len(MountPwd), TRUE).bytes = MountPwd
    /\ wasi_fd_prestat_dir_name(4, Len(MountPwd) + 1, TRUE).status = WASI_EINVAL
    /\ wasi_fd_prestat_get(5, TRUE).status = WASI_EBADF

\* C22: once the engine holds an instance, the _initialize of every later
\* pack builds no further instance, keeps the one there is and does not run
\* the guest's constructors again.
C22_InitializeOnce ==
    [][pc = "execute" /\ _instance =>
          /\ _instance'
          /\ made'.instances = made.instances
          /\ pc' # "ctors"]_vars
\* guest code of a second run on the instance the first run built
C22_Witness ==
    /\ pc = "guest"
    /\ runs = 2
    /\ _instance
    /\ made = [engines |-> 1, instances |-> 1]

\* C23: a GltfpackWasm is built only by a get_gltfpack that finds none, the
\* first one included; while there is one, no step builds another, and the
\* only step that drops it is reset_gltfpack, after which the next
\* get_gltfpack builds a new one.
C23_Singleton ==
    [][/\ _gltfpack /\ _gltfpack' => made'.engines = made.engines
       /\ _gltfpack /\ ~_gltfpack' => reset_gltfpack
       /\ ~_gltfpack /\ _gltfpack' => made'.engines = made.engines + 1
       /\ ~_gltfpack /\ ~_gltfpack' => made'.engines = made.engines
       /\ (get_gltfpack \/ pc = "execute") => _gltfpack']_vars
\* a second GltfpackWasm, built after a reset, has served a run
C23_Witness ==
    /\ pc = "idle"
    /\ _gltfpack
    /\ made.engines = 2
    /\ runs = 2
    /\ result.kind = "returned" /\ result.success

\* an accessor refused the access as out of bounds and left memory as it was
Rejected(r) == r.exc \in {"ValueError", "IndexError"} /\ r.mem = memory

\* C24: every memory accessor, given a negative offset or an access that
\* ends beyond the memory, raises and leaves the memory unmodified.
C24_BoundsChecked ==
    \A offset \in MemOffsets :
        /\ (offset < 0 \/ offset + 1 > Len(memory)) =>
              \A value \in U8Values : Rejected(_set_u8(memory, offset, value))
        /\ (offset < 0 \/ offset + 4 > Len(memory)) =>
              /\ \A value \in U32Values : Rejected(_set_u32(memory, offset, value))
              /\ Rejected(_get_u32(memory, offset))
        /\ \A length \in MemLengths :
              (offset < 0 \/ offset + length > Len(memory)) =>
                  Rejected(_get_string(memory, offset, length))

\* C25: for every offset with offset + 4 within the memory and every value
\* 0 <= v < 2^32, _set_u32 raises nothing, stores the four bytes of v least
\* significant first at offset..offset+3, changes no other byte, and a
\* _get_u32 at the same offset then returns v.
C25_U32RoundTrip ==
    \A offset \in 0..(Len(memory) - 4), value \in U32Values :
        (0 <= value.hi /\ value.hi < 2 ^ 16) =>
            LET w == _set_u32(memory, offset, value)
            IN /\ w.exc = ""
               /\ Len(w.mem) = Len(memory)
               /\ w.mem[offset + 1] = value.lo % 256
               /\ w.mem[offset + 2] = value.lo \div 256
               /\ w.mem[offset + 3] = value.hi % 256
               /\ w.mem[offset + 4] = value.hi \div 256
               /\ \A i \in 1..Len(memory) :
                     (i <= offset \/ i > offset + 4) => w.mem[i] = memory[i]
               /\ _get_u32(w.mem, offset) = MemRet(w.mem, value, "")
\* a word written at offset 1 of a memory of ones, its neighbours as they were
C25_Witness ==
    /\ memory = <<1, 1, 0, 0, 255, 1>>
    /\ _get_u32(memory, 1).val = Word(255 * 256, 1)

\* C26: _select_backend returns the outcome of the first rule that applies:
\* both force flags -> error; force native -> native if the binary is
\* there, else error; force WASM -> WASM if available, else error;
\* prefer_wasm -> WASM if available, else native if there, else error;
\* otherwise native if there, else WASM if available, else error.  It
\* returns either a backend or an error result, never both or neither, and
\* never a backend that is not there.
C26_SelectBackend ==
    native.at = "_select_backend" =>
        LET a == native.args
            r == native.ret
            force_native == EnvFlag(a.env_native)
            force_wasm == EnvFlag(a.env_wasm)
            has_native == a.gltfpack # None
            expected ==
                IF force_native /\ force_wasm THEN "error"
                ELSE IF force_native THEN (IF has_native THEN "native" ELSE "error")
                ELSE IF force_wasm THEN (IF a.wasm_available THEN "wasm" ELSE "error")
                ELSE IF a.prefer_wasm
                THEN (IF a.wasm_available THEN "wasm"
                      ELSE IF has_native THEN "native" ELSE "error")
                ELSE (IF has_native THEN "native"
                      ELSE IF a.wasm_available THEN "wasm" ELSE "error")
            outcome == IF r.error # None THEN "error"
                       ELSE IF r.value = Some(TRUE) THEN "wasm" ELSE "native"
        IN /\ outcome = expected
           /\ (r.error = None) # (r.value = None)
           /\ r.value \in {None, Some(TRUE), Some(FALSE)}
           /\ r.error # None =>
                 /\ r.error[1].kind = "returned"
                 /\ ~r.error[1].success
                 /\ r.error[1].path = a.input_path
           /\ outcome = "wasm" => a.wasm_available
           /\ outcome = "native" => has_native
\* WASM was preferred but is not available, and the native binary was taken;
\* no flag was forced although one environment variable is set
C26_Witness ==
    /\ native.at = "_select_backend"
    /\ native.args.prefer_wasm /\ ~native.args.wasm_available
    /\ native.args.gltfpack # None
    /\ native.args.env_native = "no"
    /\ native.ret = Fine(Some(FALSE))

\* C27: an explicit output path is returned as it is, and the default output
\* name is a fixed point: resolving the default output of any input path
\* again gives the same path.
C27_ResolveIdempotent ==
    native.at = "_resolve_output_path" =>
        IF native.args.output_path # None
        THEN native.ret = native.args.output_path[1]
        ELSE _resolve_output_path(native.ret, None) = native.ret

C29_Hundredths == {r[1].v : r \in {x \in Ratios \ {None} : x[1].t = "float"}}

\* the early return taken for each ratio, and the arguments of a call that
\* went on
C29_Returns ==
    /\ \A input_path \in InputPaths \cap DOMAIN disk, mesh_compress \in BOOLEAN,
          v \in C29_Hundredths :
          LET early == run_gltfpack_wasm_return(input_path, mesh_compress,
                           Some(Float(v)), TRUE, TRUE, DOMAIN disk) IN
          IF v < 0 \/ v > 100
          THEN early = Returned(FALSE, input_path,
                                Msg("simplify_ratio must be [0.0, 1.0]: ", <<v>>))
          ELSE early = NoResult
    /\ pc \in {"execute", "ctors", "guest"} /\ call.simplify_ratio # None =>
          /\ call.simplify_ratio[1].v \in 0..100
          /\ Len(call.args) = (IF call.mesh_compress THEN 3 ELSE 2)
          /\ call.args[Len(call.args) - 1] = <<"-", "s", "i">>
          /\ call.simplify_ratio[1].v = 0 =>
                call.args[Len(call.args)] = <<"0", ".", "0">>
          /\ call.simplify_ratio[1].v = 100 =>
                call.args[Len(call.args)] = <<"1", ".", "0">>
          /\ pc = "guest" => SubSeq(call.argv, 6, Len(call.argv)) = call.args
\* a run_gltfpack_wasm step either returns or goes on to _execute, and
\* writes nothing
C29_Step ==
    runs' = runs + 1 =>
        /\ disk' = disk
        /\ _fs_interface' = _fs_interface
        /\ _output_buffer' = _output_buffer
        /\ pc' \in {"idle", "execute"}
        /\ (pc' = "idle") = (result'.kind # "none")
        /\ result'.message.text = "simplify_ratio must be [0.0, 1.0]: " =>
              /\ result'.kind = "returned" /\ ~result'.success
              /\ result'.message.detail[1] \notin 0..100

\* C29: with the runtime available and the input file there,
\* run_gltfpack_wasm returns before _execute, with a failure result whose
\* message names simplify_ratio, for every simplify_ratio outside [0.0, 1.0],
\* and takes no early return for a ratio inside it, 0.0 and 1.0 included.  A
\* run_gltfpack_wasm step that returns runs no guest code and changes neither
\* the disk nor the virtual filesystem; one that goes on carries '-si' and
\* str(ratio) as its last two arguments, and these reach the guest.
C29_SimplifyRatio == []C29_Returns /\ [][C29_Step]_vars
\* a ratio of 1.01 was refused: the run ended at once and the disk is as it was
C29_Witness ==
    /\ pc = "idle"
    /\ runs = 1
    /\ result = Returned(FALSE, NameA, Msg("simplify_ratio must be [0.0, 1.0]: ", <<101>>))
    /\ DOMAIN disk = {NameA}

\* C28: a step on which run_gltfpack_wasm returns success = False leaves the
\* disk as it was; the disk changes only on the step that ends a run whose
\* guest returned 0; and a step that reports success has written the output
\* file with the bytes the guest left under the output name.
C28_FailedWritesNothing ==
    [][/\ (/\ pc' = "idle" /\ (pc # "idle" \/ runs' # runs)
           /\ result'.kind = "returned" /\ ~result'.success) => disk' = disk
       /\ disk' # disk => \E write_fault \in WriteFaults : pack_return(0, write_fault)
       /\ (/\ pc' = "idle" /\ pc # "idle"
           /\ result'.kind = "returned" /\ result'.success) =>
             /\ pc = "guest"
             /\ call.output_path \in DOMAIN disk'
             /\ disk'[call.output_path] =
                   Get(_fs_interface.files, call.output_path, <<>>)]_vars

\* C31: with the runtime available and the input file there, a
\* run_gltfpack_wasm call whose texture_quality the native path's
\* _validate_texture_quality refuses returns at once with a failure result
\* for the input path, and no pack is run for it.
C31_TextureQualityValidated ==
    [][\A input_path \in InputPaths \cap DOMAIN disk, output_path \in OutputPaths,
          texture_compress \in BOOLEAN, mesh_compress \in BOOLEAN,
          texture_quality \in TextureQualities \ {None} :
          (/\ _validate_texture_quality(Some(Integer(texture_quality[1])),
                                        input_path).error # None
           /\ run_gltfpack_wasm(input_path, output_path, texture_compress,
                                mesh_compress, None, texture_quality, TRUE, TRUE)) =>
              /\ pc' = "idle"
              /\ result'.kind = "returned"
              /\ ~result'.success
              /\ result'.path = input_path]_vars

\* C34: whatever host calls came before, a close of one of the fds 1-4
\* included, a path_open that succeeds returns an fd of at least 5 that is
\* not in the fd table at that moment, with every id from 5 below it in
\* the table, and enters it in the table next to the entries already there.
C34_SmallestUnused ==
    pc = "guest" =>
        \A parent_fd \in FdArgs, path \in GuestPaths, oflags \in Oflags :
            LET r == wasi_path_open32(parent_fd, path, oflags, TRUE) IN
            (r.status = 0 /\ r.exc = "") =>
                /\ r.val \notin 1..4
                /\ r.val >= 5
                /\ r.val \notin DOMAIN _fds
                /\ \A fd \in 5..(r.val - 1) : fd \in DOMAIN _fds
                /\ r.val \in DOMAIN r.fds
                /\ \A fd \in DOMAIN _fds : fd \in DOMAIN r.fds /\ r.fds[fd] = _fds[fd]
\* fd 1 was closed and a path_open after it returned 6, with 5 still open
C34_Witness ==
    /\ pc = "guest"
    /\ 1 \notin DOMAIN _fds
    /\ {5, 6} \subseteq DOMAIN _fds
    /\ 6 \in returned_fds

\* C35: in every state the host-call layer reaches, every open file of the
\* fd table has 0 <= position <= size <= length of its buffer.
C35_CursorWithinFile ==
    \A fd \in DOMAIN _fds :
        IsRegularFile(_fds, fd) =>
            /\ 0 <= _fds[fd]["position"]
            /\ _fds[fd]["position"] <= _fds[fd]["size"]
            /\ _fds[fd]["size"] <= Len(_fds[fd]["data"])

\* C37: while guest code runs, an fd_read or fd_write on a mount point and an
\* fd_read on a log stream transfer no bytes (the count stored is 0, the log
\* buffer and the virtual filesystem stay as they are) and leave the
\* descriptor's entry of the fd table exactly as it was.
C37_MountAndLogNotFiles ==
    pc = "guest" =>
        \A fd \in DOMAIN _fds :
            /\ (IsMountPoint(_fds, fd) \/ IsStdOutput(_fds, fd)) =>
                  \A buf_lens \in BufLens :
                      LET r == wasi_fd_read(fd, buf_lens, TRUE) IN
                      /\ r.exc = ""
                      /\ r.val = 0
                      /\ r.fds = _fds
            /\ IsMountPoint(_fds, fd) =>
                  \A iovs \in Iovs :
                      LET r == wasi_fd_write(fd, iovs, TRUE) IN
                      /\ r.exc = ""
                      /\ r.val = 0
                      /\ r.fds = _fds
                      /\ r.out = _output_buffer
                      /\ r.fs = _fs_interface

\* a host call that returned a nonzero status left host state as it was
C38_Kept(r) ==
    (r.exc = "" /\ r.status # 0) =>
        /\ r.status \in {WASI_EBADF, WASI_EINVAL, WASI_EIO, WASI_ENOSYS}
        /\ r.fds = _fds
        /\ r.fs = _fs_interface
        /\ r.out = _output_buffer

\* C38: while guest code runs, every host call that returns a nonzero status
\* leaves the fd table, the virtual filesystem and the log buffer as they
\* were; a failed path_open enters no fd, and path_remove_directory and
\* fd_fdstat_set_flags always fail and so never change anything.
C38_ErrorAtomicity ==
    pc = "guest" =>
        /\ \A rval \in ReturnCodes : C38_Kept(wasi_proc_exit(rval))
        /\ \A fd \in FdArgs, mem_ok \in BOOLEAN :
              /\ C38_Kept(wasi_fd_close(fd))
              /\ C38_Kept(wasi_fd_fdstat_get(fd, mem_ok))
              /\ C38_Kept(wasi_fd_prestat_get(fd, mem_ok))
              /\ \A path_len \in {1, Len(MountPwd)} :
                    C38_Kept(wasi_fd_prestat_dir_name(fd, path_len, mem_ok))
              /\ \A path \in GuestPaths :
                    /\ C38_Kept(wasi_path_filestat_get(fd, path, mem_ok))
                    /\ \A oflags \in Oflags :
                          LET r == wasi_path_open32(fd, path, oflags, mem_ok) IN
                          /\ C38_Kept(r)
                          /\ (r.exc = "" /\ r.status # 0) =>
                                DOMAIN r.fds = DOMAIN _fds
              /\ \A offset \in Offsets, whence \in Whences :
                    C38_Kept(wasi_fd_seek32(fd, offset, whence, mem_ok))
              /\ \A buf_lens \in BufLens : C38_Kept(wasi_fd_read(fd, buf_lens, mem_ok))
              /\ \A iovs \in Iovs : C38_Kept(wasi_fd_write(fd, iovs, mem_ok))
              /\ wasi_path_remove_directory(fd) = Returns(WASI_EINVAL)
              /\ wasi_fd_fdstat_set_flags(fd, 0) = Returns(WASI_ENOSYS)
\* two calls after the reset, with an empty file open whose cursor a seek
\* past the end is refused, and a file that cannot be opened
C38_Witness ==
    /\ pc = "guest"
    /\ ncalls = 2
    /\ IsRegularFile(_fds, 5)
    /\ _fds[5]["size"] = 0
    /\ _fds[5]["position"] = 0
    /\ wasi_fd_seek32(5, 1, 1, TRUE).status = WASI_EINVAL
    /\ wasi_path_open32(3, Some(NameAPacked), 0, TRUE).status = WASI_EIO
    /\ wasi_fd_close(6).status = WASI_EBADF

\* C36: the round-trip guest never meets a failing host call; after the close
\* the virtual filesystem holds exactly the bytes written under the name, and
\* when a read delivers nothing the bytes read back are exactly the bytes
\* written, whatever the split into fd_write calls, iovecs and read buffers.
C36_RoundTrip ==
    /\ guest.at # "failed"
    /\ pc = "guest"
    /\ guest.at \in {"reopen", "read", "done"} =>
          LET file_path == _fds[guest.mount]["path"] \o guest.name IN
          /\ file_path \in DOMAIN _fs_interface.files
          /\ _fs_interface.files[file_path] = guest.written
    /\ guest.at = "read" =>
          guest.got = SubSeq(guest.written, 1, Len(guest.got))
    /\ guest.at = "done" => guest.got = guest.written
\* three bytes written in three calls, so that the buffer grew, and read back
C36_Witness ==
    /\ guest.at = "done"
    /\ guest.writes = MaxWrites
    /\ Len(guest.written) = MaxRound
    /\ guest.got = guest.written

\* C39: whenever the guest's constructors run inside _initialize, the mount
\* points 3 and 4 are in the fd table and fd_prestat_get succeeds for both.
C39_ResetBeforeCtors ==
    pc = "ctors" =>
        /\ IsMountPoint(_fds, 3)
        /\ IsMountPoint(_fds, 4)
        /\ wasi_fd_prestat_get(3, TRUE).status = 0
        /\ wasi_fd_prestat_get(4, TRUE).status = 0

\* C33: between two invocations of pack no argv buffer obtained from the
\* guest's malloc is left without its free.
C33_ArgvFreed == heap.at = "idle" => heap.live = {}

\* the address _upload_argv gives string i of the argv in heap
C40_Address(i) ==
    heap.buf + 4 * Len(heap.argv)
    + SumLens([k \in 1..(i - 1) |-> Encode(heap.argv[k])]) + (i - 1)

\* C40: when _upload_argv has returned, it asked malloc for 4 bytes per
\* string plus the UTF-8 length of each string plus one, it returned the
\* address malloc gave, no byte of memory outside the block has changed, the
\* little-endian word i of the block is the address of string i, string 1
\* starts right after the words and each string is followed by one NUL byte
\* and then by the next string; and it raises nothing when the block lies
\* inside memory.
C40_ArgvLayout ==
    /\ heap.at = "guest" =>
          LET N == Len(heap.argv)
              size == 4 * N + SumLens([k \in 1..N |-> Encode(heap.argv[k])]) + N
          IN /\ heap.size = size
             /\ heap.exc = ""
             /\ heap.buf \in ArgvBufs
             /\ heap.buf + size <= Len(memory)
             /\ \A j \in 1..Len(memory) :
                   (j <= heap.buf \/ j > heap.buf + size) => memory[j] = heap.before[j]
             /\ \A i \in 1..N :
                   LET word == heap.buf + 4 * (i - 1)
                       arg == Encode(heap.argv[i])
                   IN /\ memory[word + 1] = C40_Address(i) % 256
                      /\ memory[word + 2] = C40_Address(i) \div 256
                      /\ memory[word + 3] = 0
                      /\ memory[word + 4] = 0
                      /\ \A j \in 1..Len(arg) : memory[C40_Address(i) + j] = arg[j]
                      /\ memory[C40_Address(i) + Len(arg) + 1] = 0
             /\ N > 0 => C40_Address(N) + Len(Encode(heap.argv[N])) + 1 = heap.buf + size
    /\ \A argv \in ArgvLists, buf \in ArgvBufs :
          LET r == _upload_argv(memory, argv, buf) IN
          buf + r.size <= Len(memory) => (r.exc = "" /\ r.val = buf)
\* two strings, the second with a two-byte character, uploaded at address 1
C40_Witness ==
    /\ heap.at = "guest"
    /\ heap.argv = << <<"a">>, <<"e">> >>
    /\ heap.buf = 1
    /\ heap.size = 13
    /\ SubSeq(memory, 2, 14) = <<9, 0, 0, 0, 11, 0, 0, 0, 97, 0, 195, 169, 0>>
    /\ memory[1] = InvalidByte /\ memory[15] = InvalidByte

\* caller t's pack has returned what its own run produces
C32_Own(t) ==
    /\ threads.t[t].ret.success
    /\ threads.t[t].ret.output_data = RaceData(t)
    /\ threads.t[t].ret.log = RaceMark(t)

\* C32: when the callers serialize their pack calls, every pack returns the
\* output and the log of its own run, and while a pack is under way no
\* other caller has reset or seeded the state it works on.
C32_SerializedSafe ==
    threads # NoThreads /\ threads.serial =>
        \A t \in Tids :
            /\ threads.t[t].at = "done" => C32_Own(t)
            /\ threads.t[t].at # "failed"
            /\ threads.t[t].at \in {"log", "open_input", "open_output", "read", "write",
                                    "close_output", "close_input", "return"} =>
                  /\ _fs_interface.files[RaceInput(t)] = RaceData(t)
                  /\ \A fd \in DOMAIN _fds :
                        IsRegularFile(_fds, fd) =>
                            fd \in {threads.t[t].in_fd, threads.t[t].out_fd}
\* without the lock: caller 1's pack has returned success with caller 2's
\* input as its output and with a log that holds caller 2's byte
C32_Witness ==
    /\ threads # NoThreads
    /\ ~threads.serial
    /\ threads.t[1].at = "done"
    /\ threads.t[1].ret.success
    /\ threads.t[1].ret.output_data = RaceData(2)
    /\ threads.t[1].ret.log # RaceMark(1)



===========================================================================
